---------------------------- MODULE Spec2Model ----------------------------
(***************************************************************************)
(* A model of package gcstats (aclements/go-gcstats): the GC trace parser  *)
(* NewFromLog, the phase log it returns (GcStats), and the mutator         *)
(* utilization engine built on it (muInWindow, MMU, MMUs,                  *)
(* MutatorUtilization, MutatorUtilizationDistribution, MUD.CDF,            *)
(* MUD.InvCDF, uniformSumToEdges).                                         *)
(*                                                                         *)
(* Numbers.  int64 values are TLA+ integers (all values stay far below     *)
(* 2^31, so no wrap-around is involved).  A float64 is modelled as a       *)
(* binary floating-point number whose significand has MantissaBits bits    *)
(* instead of 53: every operation returns the representable number nearest *)
(* to the exact result, ties to even, as IEEE 754 prescribes.  The range   *)
(* of the exponent is not bounded (no overflow, no underflow), and there   *)
(* is one zero.  Division by zero gives NaN or an infinity.  The integers  *)
(* converted to floats are all smaller than 2^MantissaBits, so that, as in *)
(* the program for values below 2^53, the conversion is exact.             *)
(*                                                                         *)
(* Slices are sequences; Go's 0-based index i is the 1-based index i + 1.  *)
(*                                                                         *)
(* Where a value is computed once and used several times, it is bound with *)
(*     CHOOSE r \in { e : x \in {v} } : TRUE                               *)
(* which is LET x == v IN e with v evaluated once, whatever the evaluator. *)
(***************************************************************************)
EXTENDS Integers, Sequences, FiniteSets, TLC

\* ------------------------------------------------------------------------
\* Bounds of the model
\* ------------------------------------------------------------------------

\* Number of input lines NewFromLog reads before the end of the stream.
MaxLines == 2

\* Window sizes 1..MaxWindow are tried, besides -1, 0 and the sizes around
\* the length of the log.
MaxWindow == 2

\* Probabilities k / ProbDen and utilizations k / ProbDen are probed.
ProbDen == 4

\* ------------------------------------------------------------------------
\* float64
\* ------------------------------------------------------------------------

\* Number of bits of the significand of a float (53 in a float64).
MantissaBits == 11

Abs(x) == IF x < 0 THEN -x ELSE x

Sign(x) == IF x < 0 THEN -1 ELSE IF x > 0 THEN 1 ELSE 0

\* Number of bits of the natural number n
RECURSIVE BitLen(_)
BitLen(n) == IF n = 0 THEN 0 ELSE 1 + BitLen(n \div 2)

\* A finite float is <<m, e>>, of value m * 2^e, with m odd and
\* |m| < 2^MantissaBits, or <<0, 0>>.
Zero == <<0, 0>>

NaN == <<0, 1>>

PosInf == <<0, 2>>

NegInf == <<0, 3>>

IsNum(a) == a[1] # 0 \/ a[2] = 0

\* m * 2^e (m # 0) with the trailing zero bits of m moved to the exponent
RECURSIVE Canon(_, _)
Canon(m, e) == IF m % 2 = 0 THEN Canon(m \div 2, e + 1) ELSE <<m, e>>

\* The float nearest to s * (n + f) * 2^e, ties to even, for a sign s, a
\* natural n >= 1 and a fraction f in [0, 1) that is 0 unless sticky (n has
\* more than MantissaBits bits when sticky).
Round(s, n, e, sticky) ==
    CHOOSE r \in
        { IF sh <= 0 THEN Canon(s * n, e)
          ELSE CHOOSE c \in
                 { Canon(s * (IF rem > half \/ (rem = half /\ (sticky \/ q % 2 = 1))
                              THEN q + 1 ELSE q), e + sh)
                   : <<q, rem, half>> \in
                       { << n \div (2 ^ sh), n % (2 ^ sh), 2 ^ (sh - 1) >> } } : TRUE
          : sh \in { BitLen(n) - MantissaBits } } : TRUE

\* float64(i) for an integer i
F(i) == IF i = 0 THEN Zero ELSE Round(Sign(i), Abs(i), 0, FALSE)

RNeg(a) ==
    CHOOSE r \in { IF x = PosInf THEN NegInf ELSE IF x = NegInf THEN PosInf
                   ELSE IF x = NaN THEN NaN ELSE <<-x[1], x[2]>>
                   : x \in {a} } : TRUE

\* x + y for finite non-zero floats with x[2] >= y[2].  x is scaled by
\* 2^(MantissaBits + 2) and y is brought to the same exponent, the bits
\* shifted out of it being kept as a sticky bit.
addAligned(x, y) ==
    CHOOSE r \in
        { CHOOSE c \in
            { IF sum = 0 THEN Zero
              ELSE IF ~st \/ Sign(sum) = Sign(y[1])
              THEN Round(Sign(sum), Abs(sum), x[2] - g, st)
              ELSE Round(Sign(sum), Abs(sum) - 1, x[2] - g, TRUE)
              : <<sum, st>> \in
                  { IF k <= 0 THEN << x[1] * (2 ^ g) + y[1] * (2 ^ (-k)), FALSE >>
                    ELSE IF k > MantissaBits THEN << x[1] * (2 ^ g), TRUE >>
                    ELSE << x[1] * (2 ^ g) + Sign(y[1]) * (Abs(y[1]) \div (2 ^ k)),
                            Abs(y[1]) % (2 ^ k) # 0 >> } } : TRUE
          : <<g, k>> \in { << MantissaBits + 2, (x[2] - (MantissaBits + 2)) - y[2] >> } } : TRUE

RAdd(a, b) ==
    CHOOSE r \in { IF x = NaN \/ y = NaN THEN NaN
                   ELSE IF ~IsNum(x) THEN (IF IsNum(y) \/ x = y THEN x ELSE NaN)
                   ELSE IF ~IsNum(y) THEN y
                   ELSE IF x = Zero THEN y
                   ELSE IF y = Zero THEN x
                   ELSE IF x[2] >= y[2] THEN addAligned(x, y) ELSE addAligned(y, x)
                   : x \in {a}, y \in {b} } : TRUE

RSub(a, b) == RAdd(a, RNeg(b))

RMul(a, b) ==
    CHOOSE r \in { IF x = NaN \/ y = NaN THEN NaN
                   ELSE IF ~IsNum(x) \/ ~IsNum(y)
                   THEN (IF x = Zero \/ y = Zero THEN NaN
                         ELSE IF (x = NegInf \/ x[1] < 0) = (y = NegInf \/ y[1] < 0)
                         THEN PosInf ELSE NegInf)
                   ELSE IF x = Zero \/ y = Zero THEN Zero
                   ELSE Round(Sign(x[1]) * Sign(y[1]), Abs(x[1]) * Abs(y[1]),
                              x[2] + y[2], FALSE)
                   : x \in {a}, y \in {b} } : TRUE

\* x / y for finite non-zero floats: the significand of x is scaled to
\* 2 * MantissaBits + 2 bits, so that the quotient has two bits more than a
\* significand, and the remainder is kept as a sticky bit.
divFinite(x, y) ==
    CHOOSE r \in
        { Round(Sign(x[1]) * Sign(y[1]), (Abs(x[1]) * (2 ^ sh)) \div Abs(y[1]),
                x[2] - sh - y[2], (Abs(x[1]) * (2 ^ sh)) % Abs(y[1]) # 0)
          : sh \in { 2 * MantissaBits + 2 - BitLen(Abs(x[1])) } } : TRUE

RDiv(a, b) ==
    CHOOSE r \in { IF x = NaN \/ y = NaN THEN NaN
                   ELSE IF ~IsNum(x) THEN (IF ~IsNum(y) THEN NaN
                                           ELSE IF (x = NegInf) = (y[1] < 0)
                                           THEN PosInf ELSE NegInf)
                   ELSE IF ~IsNum(y) THEN Zero
                   ELSE IF y = Zero THEN (IF x = Zero THEN NaN
                                          ELSE IF x[1] > 0 THEN PosInf ELSE NegInf)
                   ELSE IF x = Zero THEN Zero
                   ELSE divFinite(x, y)
                   : x \in {a}, y \in {b} } : TRUE

\* The float nearest to n / d
Rat(n, d) == RDiv(F(n), F(d))

\* Comparisons: as in IEEE, every comparison with NaN is false.  The sign
\* of x - y decides the others (a difference of two different floats is
\* never rounded to 0).
cmp(a, b) ==
    CHOOSE r \in { IF x = y THEN 0
                   ELSE IF x = PosInf \/ y = NegInf THEN 1
                   ELSE IF x = NegInf \/ y = PosInf THEN -1
                   ELSE Sign(RSub(x, y)[1])
                   : x \in {a}, y \in {b} } : TRUE

RLt(a, b) == a # NaN /\ b # NaN /\ cmp(a, b) < 0

RLe(a, b) == a # NaN /\ b # NaN /\ cmp(a, b) <= 0

REq(a, b) == a # NaN /\ b # NaN /\ a = b

RNe(a, b) == ~REq(a, b)

\* math.Min: NaN if either argument is NaN.
RMin(a, b) ==
    CHOOSE r \in { IF x = NaN \/ y = NaN THEN NaN ELSE IF RLt(y, x) THEN y ELSE x
                   : x \in {a}, y \in {b} } : TRUE

int64Min(a, b) == IF a < b THEN a ELSE b

int64Max(a, b) == IF a > b THEN a ELSE b

\* ------------------------------------------------------------------------
\* Phases (gcstats.go)
\* ------------------------------------------------------------------------

PhaseSweepTerm == 0
PhaseScan == 1
PhaseInstallWB == 2
PhaseMark == 3
PhaseMarkTerm == 4
PhaseSweep == 5
PhaseMultiple == 6

Phase(begin, duration, kind, n, gomaxprocs, gcprocs, stw) ==
    [Begin |-> begin, Duration |-> duration, Kind |-> kind, N |-> n,
     Gomaxprocs |-> gomaxprocs, GCProcs |-> gcprocs, STW |-> stw]

\* What a call gives: Ok(v) when it returns v, Panicked when it panics.
Ok(v) == [ok |-> TRUE, val |-> v]

Panicked == [ok |-> FALSE]

\* Phase.End.  Where the duration is unknown the call panics: the string
\* takes the place of the time, and no arithmetic can be done on it.
End(p) == IF p.Duration = -1 THEN "panic: phase has unknown duration"
          ELSE p.Begin + p.Duration


\* ------------------------------------------------------------------------
\* The trace parser (parse.go)
\* ------------------------------------------------------------------------

\* 5*time.Millisecond in nanoseconds: the largest backward step between two
\* cycles that is repaired rather than rejected.
BackwardLimit == 5000000

\* A line matching gc14Log is the record of its captured fields:
\*   [fmt |-> "gc14", n, stop, sweepTerm, markTerm, shrink, at]
\* where at is <<>> when the optional group (@\d+) did not match and <<T>>
\* when it matched "@T".
\*
\* A line matching gc15Head is
\*   [fmt |-> "gc15", n, ts, sep, parts]
\* sep tells whether the line contains ": " (where strings.SplitAfterN cuts
\* the head off); a line that ends with the ":" of the head, or whose ":" is
\* not followed by a space, has sep = FALSE and no parts.
\* ts is the value int64(atof(Ts)*float64(time.Second)) of the "@Ts s" field
\* (the decimal text is represented by the number of nanoseconds it
\* denotes), and parts is the sequence of the ", "-separated sections after
\* the head, each one of
\*   [sec |-> "clock", vals |-> <<c, ...>>]  "c+c+... ms clock", each c the
\*                                            nanoseconds int64(atof(c)*1e6)
\*   [sec |-> "cpu", vals |-> << <<u, ...>>, ...>>]  "u/u+... ms cpu"
\*   [sec |-> "P", val |-> p]                 "p P"
\*   [sec |-> "other"]                        anything else

\* shiftPhases
RECURSIVE shiftPhases(_, _)
shiftPhases(phases, delta) ==
    IF phases = <<>> THEN <<>>
    ELSE <<[Head(phases) EXCEPT !.Begin = @ + delta]>> \o shiftPhases(Tail(phases), delta)

\* phasesFromLog14: the three phases of a Go 1.4 cycle and whether the line
\* carried a begin time.  The durations are microseconds times 1000; the
\* begin time is the number after "@" as it stands.
phasesFromLog14(line) ==
    LET haveBegin == line.at # <<>>
        begin == IF haveBegin THEN line.at[1] ELSE 0
        d0 == (line.stop + line.sweepTerm) * 1000
        d1 == (line.markTerm + line.shrink) * 1000
        b0 == begin
        b1 == IF haveBegin THEN b0 + d0 ELSE 0
        b2 == IF haveBegin THEN b1 + d1 ELSE 0
    IN  [phases |-> << Phase(b0, d0, PhaseSweepTerm, line.n, 1, F(1), TRUE),
                       Phase(b1, d1, PhaseMarkTerm, line.n, 1, F(1), TRUE),
                       Phase(b2, -1, PhaseSweep, line.n, 1, F(0), FALSE) >>,
         haveBegin |-> haveBegin]

\* Sum of a sequence of integers (the inner loop over the "/"-separated
\* sub-values of one cpu segment).
RECURSIVE SumSeq(_)
SumSeq(q) == IF q = <<>> THEN 0 ELSE Head(q) + SumSeq(Tail(q))

\* What one comma separated section does to clock, cpu, gomaxprocs and the
\* three got flags; err # "" when it has the wrong number of segments.
section15(part, acc) ==
    IF part.sec = "clock" THEN
        IF Len(part.vals) # 5
        THEN [acc EXCEPT !.err = "unexpected number of clock times"]
        ELSE [acc EXCEPT !.clock = part.vals, !.gotClock = TRUE]
    ELSE IF part.sec = "cpu" THEN
        IF Len(part.vals) # 5
        THEN [acc EXCEPT !.err = "unexpected number of cpu times"]
        ELSE [acc EXCEPT !.cpu = [k \in 1..5 |-> acc.cpu[k] + SumSeq(part.vals[k])],
                         !.gotCPU = TRUE]
    ELSE IF part.sec = "P" THEN
        [acc EXCEPT !.gomaxprocs = part.val, !.gotGomaxprocs = TRUE]
    ELSE acc

\* The loop of phasesFromLog15 over the comma separated sections, from
\* section i on; it stops at the first error.
RECURSIVE sections15(_, _, _)
sections15(parts, i, acc) ==
    IF i > Len(parts) \/ acc.err # "" THEN acc
    ELSE CHOOSE r \in { sections15(parts, i + 1, acc1)
                        : acc1 \in { section15(parts[i], acc) } } : TRUE

Kinds15 == <<PhaseSweepTerm, PhaseScan, PhaseInstallWB, PhaseMark, PhaseMarkTerm>>

\* Begin of the i-th phase (1-based) of a modern cycle: now after i - 1
\* iterations of the loop that creates the phases.
RECURSIVE now15(_, _, _)
now15(begin, clock, i) == IF i = 1 THEN begin ELSE now15(begin, clock, i - 1) + clock[i - 1]

\* The phases created from the raw parts acc of a line.
phases15(line, acc) ==
    [i \in 1..6 |->
        IF i <= 5
        THEN LET kind == Kinds15[i]
                 stw == kind = PhaseSweepTerm \/ kind = PhaseMarkTerm
                 procs == IF acc.clock[i] = 0
                          THEN (IF stw THEN F(acc.gomaxprocs) ELSE F(0))
                          ELSE Rat(acc.cpu[i], acc.clock[i])
             IN  Phase(now15(line.ts, acc.clock, i), acc.clock[i], kind, line.n,
                       acc.gomaxprocs, procs, stw)
        ELSE Phase(now15(line.ts, acc.clock, 6), -1, PhaseSweep, line.n,
                   acc.gomaxprocs, F(0), FALSE)]

\* phasesFromLog15: the six phases of a Go 1.5 cycle, or an error.  Without
\* ": " in the line SplitAfterN returns one element and parts[1] panics with
\* an index out of range.
phasesFromLog15(line) ==
    IF ~line.sep THEN [phases |-> <<>>, err |-> "", panic |-> TRUE] ELSE
    CHOOSE r \in
        { IF acc.err # "" THEN [phases |-> <<>>, err |-> acc.err, panic |-> FALSE]
          ELSE IF ~acc.gotClock \/ ~acc.gotCPU \/ ~acc.gotGomaxprocs
          THEN [phases |-> <<>>, err |-> "failed to parse", panic |-> FALSE]
          ELSE [phases |-> phases15(line, acc), err |-> "", panic |-> FALSE]
          : acc \in { sections15(line.parts, 1,
                        [clock |-> <<0, 0, 0, 0, 0>>, cpu |-> <<0, 0, 0, 0, 0>>,
                         gomaxprocs |-> 0, gotClock |-> FALSE, gotCPU |-> FALSE,
                         gotGomaxprocs |-> FALSE, err |-> ""]) } } : TRUE

\* appendCycle without the update of the open Sweep.
appendCycleKeepOpen(lg, phases, haveBegin) == [log |-> lg \o phases, err |-> ""]

\* appendCycle with the repaired cycle shifted by delta instead of delta + 1.
appendCycleShiftDelta(lg, phases, haveBegin) ==
    IF haveBegin /\ Len(lg) > 0 /\ lg[Len(lg)].Duration = -1
    THEN LET prev == lg[Len(lg)]
             dur == phases[1].Begin - prev.Begin
             delta == -dur
         IN  IF dur < 0
             THEN IF delta > BackwardLimit
                  THEN [log |-> lg, err |-> "GC trace goes backward"]
                  ELSE [log |-> [lg EXCEPT ![Len(lg)].Duration = dur + delta + 1]
                                \o shiftPhases(phases, delta),
                        err |-> ""]
             ELSE [log |-> [lg EXCEPT ![Len(lg)].Duration = dur] \o phases, err |-> ""]
    ELSE [log |-> lg \o phases, err |-> ""]

\* appendCycle with the limit tested by >= instead of >.
appendCycleLimitOffByOne(lg, phases, haveBegin) ==
    IF haveBegin /\ Len(lg) > 0 /\ lg[Len(lg)].Duration = -1
    THEN LET prev == lg[Len(lg)]
             dur == phases[1].Begin - prev.Begin
             delta == -dur
         IN  IF dur < 0
             THEN IF delta >= BackwardLimit
                  THEN [log |-> lg, err |-> "GC trace goes backward"]
                  ELSE [log |-> [lg EXCEPT ![Len(lg)].Duration = dur + delta + 1]
                                \o shiftPhases(phases, delta + 1),
                        err |-> ""]
             ELSE [log |-> [lg EXCEPT ![Len(lg)].Duration = dur] \o phases, err |-> ""]
    ELSE [log |-> lg \o phases, err |-> ""]

\* The part of one iteration of NewFromLog's loop that follows the parsing
\* of a cycle with phases (len(phases) # 0): close the open Sweep of the
\* previous cycle, repair or reject an overlap, append the phases.  The
\* result is the new log and the error ("" for none).
appendCycle(lg, phases, haveBegin) ==
    IF haveBegin /\ Len(lg) > 0 /\ lg[Len(lg)].Duration = -1
    THEN LET prev == lg[Len(lg)]
             dur == phases[1].Begin - prev.Begin
             delta == -dur
         IN  IF dur < 0
             THEN IF delta > BackwardLimit
                  THEN [log |-> lg, err |-> "GC trace goes backward"]
                  ELSE [log |-> [lg EXCEPT ![Len(lg)].Duration = dur + delta + 1]
                                \o shiftPhases(phases, delta + 1),
                        err |-> ""]
             ELSE [log |-> [lg EXCEPT ![Len(lg)].Duration = dur] \o phases, err |-> ""]
    ELSE [log |-> lg \o phases, err |-> ""]

\* The end of NewFromLog without the removal.
keepOpenPhase(lg) == lg

\* The end of NewFromLog: remove the unterminated end phase.
dropOpenPhase(lg) ==
    IF Len(lg) > 0 /\ lg[Len(lg)].Duration = -1 THEN SubSeq(lg, 1, Len(lg) - 1) ELSE lg

\* ------------------------------------------------------------------------
\* Decimal text to nanoseconds (parse.go: atof, int64(atof(s)*float64(unit)))
\* ------------------------------------------------------------------------

\* The decimal numbers of a Go 1.5 line are converted by
\* int64(atof(s) * float64(unit)): strconv.ParseFloat rounds the decimal to
\* the nearest float64, the product is rounded to float64 again, and the
\* conversion to int64 drops the fraction.  These three steps are computed
\* here with the 53 bit significand of float64, on numbers held as sequences
\* of bits or of limbs, least significant first.  A decimal text is the pair
\* <<num, den>> of its digits read as an integer and the power of ten of
\* its fraction digits: "1.001" is <<1001, 1000>>, "4.1" is <<41, 10>>.

\* time.Second and time.Millisecond, in nanoseconds
Second == 1000000000

Millisecond == 1000000

\* The bits of the significand of a float64.
Float64Bits == 53

\* Numbers are held in limbs of LimbBits bits, least significant first,
\* where they are divided or multiplied, and in bits where they are rounded.
LimbBits == 10

LimbBase == 2 ^ LimbBits

RECURSIVE Limbs(_)
Limbs(k) == IF k = 0 THEN <<>> ELSE <<k % LimbBase>> \o Limbs(k \div LimbBase)

RECURSIVE LimbsValue(_)
LimbsValue(l) == IF l = <<>> THEN 0 ELSE l[1] + LimbBase * LimbsValue(Tail(l))

\* The bits of the limbs l.
BitsOfLimbs(l) ==
    [j \in 1..LimbBits * Len(l) |->
        (l[(j - 1) \div LimbBits + 1] \div 2 ^ ((j - 1) % LimbBits)) % 2]

RECURSIVE limbAt(_, _, _)
limbAt(b, o, t) ==
    IF t = LimbBits \/ o + t + 1 > Len(b) THEN 0
    ELSE b[o + t + 1] * 2 ^ t + limbAt(b, o, t + 1)

\* The limbs of the bits b.
LimbsOfBits(b) ==
    [i \in 1..(Len(b) + LimbBits - 1) \div LimbBits |-> limbAt(b, LimbBits * (i - 1), 0)]

\* The bits b without the zero bits above the highest one.
TrimBits(b) ==
    LET ones == {j \in 1..Len(b) : b[j] = 1}
    IN  IF ones = {} THEN <<>>
        ELSE SubSeq(b, 1, CHOOSE j \in ones : \A k \in ones : k <= j)

\* The bits of the number of bits b plus one.
IncBits(b) ==
    LET zeros == {j \in 1..Len(b) : b[j] = 0}
    IN  IF zeros = {} THEN [j \in 1..Len(b) |-> 0] \o <<1>>
        ELSE LET z == CHOOSE j \in zeros : \A k \in zeros : j <= k
             IN  [j \in 1..Len(b) |-> IF j < z THEN 0 ELSE IF j = z THEN 1 ELSE b[j]]

\* Quotient and remainder of the limbs l by the small number d, from limb i
\* down.
RECURSIVE divLimbsLoop(_, _, _, _, _)
divLimbsLoop(l, d, i, rem, q) ==
    IF i = 0 THEN [q |-> q, rem |-> rem]
    ELSE CHOOSE r \in
           { divLimbsLoop(l, d, i - 1, cur % d, <<cur \div d>> \o q)
             : cur \in { LimbBase * rem + l[i] } } : TRUE

DivLimbs(l, d) == divLimbsLoop(l, d, Len(l), 0, <<>>)

\* The product of the limbs l and the small number k, from limb i up.
RECURSIVE mulLimbsLoop(_, _, _, _, _)
mulLimbsLoop(l, k, i, carry, out) ==
    IF i > Len(l) THEN out \o Limbs(carry)
    ELSE CHOOSE r \in
           { mulLimbsLoop(l, k, i + 1, cur \div LimbBase, Append(out, cur % LimbBase))
             : cur \in { l[i] * k + carry } } : TRUE

MulLimbs(l, k) == mulLimbsLoop(l, k, 1, 0, <<>>)

\* The number of bits b (plus a fraction that is not zero if sticky) rounded
\* to a significand m of at most Float64Bits bits, to nearest and ties to
\* even: the result is m * 2^e.
RoundBits(b, sticky) ==
    CHOOSE r \in
      { IF Len(t) <= Float64Bits THEN [m |-> t, e |-> 0]
        ELSE LET d == Len(t) - Float64Bits
                 kept == SubSeq(t, d + 1, Len(t))
                 low == sticky \/ \E j \in 1..d - 1 : t[j] = 1
                 up == t[d] = 1 /\ (low \/ kept[1] = 1)
             IN  [m |-> IF up THEN IncBits(kept) ELSE kept, e |-> d]
        : t \in { TrimBits(b) } } : TRUE

RECURSIVE OddPart(_)
OddPart(k) == IF k % 2 = 0 THEN OddPart(k \div 2) ELSE k

RECURSIVE TwoPart(_)
TwoPart(k) == IF k % 2 = 0 THEN 1 + TwoPart(k \div 2) ELSE 0

\* atof(s): the float64 nearest to the decimal text, as [m, e] for m * 2^e.
\* The quotient is computed with seven more limbs than the digits have, far
\* more than the significand holds.
atof(text) ==
    CHOOSE r \in
      { [m |-> rd.m, e |-> rd.e - 7 * LimbBits]
        : rd \in { RoundBits(BitsOfLimbs(dv.q), dv.rem # 0)
                   : dv \in { DivLimbs(<<0, 0, 0, 0, 0, 0, 0>> \o Limbs(text[1]), text[2]) } } }
      : TRUE

\* int64(atof(s) * float64(unit)) for a unit that is a float64 (time.Second,
\* time.Millisecond) and a product below 2^31.
atofTimes(text, unit) ==
    IF text[1] = 0 THEN 0
    ELSE CHOOSE v \in
      { LET e == pr.e + TwoPart(unit) + pr.rd.e
        IN  IF -e >= Len(pr.rd.m) THEN 0
            ELSE LimbsValue(LimbsOfBits(SubSeq(pr.rd.m, 1 - e, Len(pr.rd.m))))
        : pr \in { [e |-> a.e,
                    rd |-> RoundBits(BitsOfLimbs(MulLimbs(LimbsOfBits(a.m), OddPart(unit))),
                                     FALSE)]
                   : a \in { atof(text) } } }
      : TRUE

\* The text of a Go 1.5 line,
\*   [fmt |-> "text15", n, ts, clock, cpu, p]
\* with the decimal texts ts, clock[i] and cpu[i][j], converted to the line
\* it is for phasesFromLog15.
convertLine15(text) ==
    [fmt |-> "gc15", n |-> text.n, ts |-> atofTimes(text.ts, Second), sep |-> TRUE,
     parts |-> << [sec |-> "clock",
                   vals |-> [i \in 1..Len(text.clock) |-> atofTimes(text.clock[i], Millisecond)]],
                  [sec |-> "cpu",
                   vals |-> [i \in 1..Len(text.cpu) |->
                               [j \in 1..Len(text.cpu[i]) |->
                                  atofTimes(text.cpu[i][j], Millisecond)]]],
                  [sec |-> "other"],
                  [sec |-> "P", val |-> text.p] >>]

\* The float64 m * 2^e with the zero bits at the low end of m moved into e,
\* so that equal numbers are equal records; 0 is [m |-> <<>>, e |-> 0].
CanonBits(x) ==
    LET ones == {j \in 1..Len(x.m) : x.m[j] = 1}
    IN  IF ones = {} THEN [m |-> <<>>, e |-> 0]
        ELSE LET lo == CHOOSE j \in ones : \A k \in ones : j <= k
             IN  [m |-> SubSeq(x.m, lo, Len(x.m)), e |-> x.e + lo - 1]

\* float64(n) / float64(d) for integers 0 <= n < 2^31 and 0 < d < 2^21,
\* which float64 holds exactly: the quotient is computed with nine more
\* limbs than n has and rounded once.
float64Div(n, d) ==
    IF n = 0 THEN [m |-> <<>>, e |-> 0]
    ELSE CHOOSE r \in
      { CanonBits([m |-> rd.m, e |-> rd.e - 9 * LimbBits])
        : rd \in { RoundBits(BitsOfLimbs(dv.q), dv.rem # 0)
                   : dv \in { DivLimbs(<<0, 0, 0, 0, 0, 0, 0, 0, 0>> \o Limbs(n), d) } } }
      : TRUE

\* The procs of the i-th timed phase in the loop of phasesFromLog15 that
\* creates the phases, as the float64 it is, from clock[i], cpu[i] and
\* gomaxprocs.
procs15(i, clock, cpu, gomaxprocs) ==
    LET stw == Kinds15[i] = PhaseSweepTerm \/ Kinds15[i] = PhaseMarkTerm
    IN  IF clock = 0
        THEN (IF stw THEN float64Div(gomaxprocs, 1) ELSE float64Div(0, 1))
        ELSE float64Div(cpu, clock)

\* cpu[i] after the loop over the slash-separated sub-values of the i-th cpu
\* segment, given by their decimal texts: the sum of the first k of them.
RECURSIVE cpuOfSegment(_, _)
cpuOfSegment(seg, k) ==
    IF k = 0 THEN 0 ELSE cpuOfSegment(seg, k - 1) + atofTimes(seg[k], Millisecond)


\* ------------------------------------------------------------------------
\* The phase-per-line parser (gcstats/parse.go, gcstats/gcstats.go)
\* ------------------------------------------------------------------------

\* This parser reads the runtime.GCstarttimes format: a cycle is a header
\* line matching gcLog,
\*   [fmt |-> "gc", n, time, gomaxprocs]
\* followed by one line per phase matching phaseLog,
\*   [fmt |-> "phase", name, dur, procs]
\* where procs is <<f>> when strconv.ParseFloat gives f and <<>> when it
\* fails (a value out of range).  Its Phase has the fields Begin and End.
PhaseBE(begin, end, kind, n, gomaxprocs, gcprocs, stw) ==
    [Begin |-> begin, End |-> end, Kind |-> kind, N |-> n,
     Gomaxprocs |-> gomaxprocs, GCProcs |-> gcprocs, STW |-> stw]

phaseNames ==
    [name \in {"sweep term", "scan", "install wb", "mark", "mark term"} |->
        CASE name = "sweep term" -> PhaseSweepTerm
          [] name = "scan" -> PhaseScan
          [] name = "install wb" -> PhaseInstallWB
          [] name = "mark" -> PhaseMark
          [] name = "mark term" -> PhaseMarkTerm]

\* phasesFromLog14 of this parser: End is set as a duration and then moved
\* by begin, that of the open Sweep (-1) included.
phasesFromLog14BE(l) ==
    LET haveBegin1 == l.at # <<>>
        begin == IF haveBegin1 THEN l.at[1] ELSE 0
        d0 == (l.stop + l.sweepTerm) * 1000
        d1 == (l.markTerm + l.shrink) * 1000
        b1 == IF haveBegin1 THEN begin + d0 ELSE 0
        b2 == IF haveBegin1 THEN b1 + d1 ELSE 0
    IN  [phases |-> << PhaseBE(begin, begin + d0, PhaseSweepTerm, l.n, 1, F(1), TRUE),
                       PhaseBE(b1, b1 + d1, PhaseMarkTerm, l.n, 1, F(1), TRUE),
                       PhaseBE(b2, b2 - 1, PhaseSweep, l.n, 1, F(0), FALSE) >>,
         haveBegin |-> haveBegin1]

\* The locals of phasesFromLog after the header line l.
startCycle(l) ==
    [n |-> l.n, time |-> l.time, gomaxprocs |-> l.gomaxprocs, phases |-> <<>>, read |-> 0]

\* One iteration of the loop of phasesFromLog on the phase line pl: a line
\* with an unknown name or a bad procs value is skipped.
appendPhase(cyc, pl) ==
    IF pl.name \notin DOMAIN phaseNames \/ pl.procs = <<>>
    THEN [cyc EXCEPT !.read = @ + 1]
    ELSE [cyc EXCEPT !.read = @ + 1,
                     !.time = @ + pl.dur,
                     !.phases = Append(@, PhaseBE(cyc.time, cyc.time + pl.dur,
                                                  phaseNames[pl.name], cyc.n,
                                                  cyc.gomaxprocs, pl.procs[1],
                                                  REq(pl.procs[1], F(cyc.gomaxprocs))))]

\* The phases of the cycle with the implicit Sweep as the last phase.
withSweep(cyc) ==
    Append(cyc.phases, PhaseBE(cyc.time, -1, PhaseSweep, cyc.n, cyc.gomaxprocs, F(0), FALSE))

\* endCycle without the test of the number of phases.
endCycleAnyLength(cyc, scanErr) ==
    IF scanErr THEN [phases |-> <<>>, nextLine |-> FALSE]
    ELSE [phases |-> withSweep(cyc), nextLine |-> TRUE]

\* The end of phasesFromLog, after the loop: nil (the empty sequence here; a
\* cycle that is kept has phases) on a scanner error and for a cycle that
\* does not have six phases.
endCycle(cyc, scanErr) ==
    IF scanErr THEN [phases |-> <<>>, nextLine |-> FALSE]
    ELSE IF Len(withSweep(cyc)) # 6 THEN [phases |-> <<>>, nextLine |-> TRUE]
    ELSE [phases |-> withSweep(cyc), nextLine |-> TRUE]

\* NewFromLog of this parser after a cycle was parsed: close the open phase
\* of the log and append the phases.
appendCycleBE(lg, phases) ==
    IF Len(lg) > 0 /\ lg[Len(lg)].End = -1
    THEN [lg EXCEPT ![Len(lg)].End = phases[1].Begin] \o phases
    ELSE lg \o phases

\* The end of NewFromLog of this parser: remove the unterminated end phase.
dropOpenPhaseBE(lg) ==
    IF Len(lg) > 0 /\ lg[Len(lg)].End = -1 THEN SubSeq(lg, 1, Len(lg) - 1) ELSE lg


\* ------------------------------------------------------------------------
\* Summary aggregations (gcstats.go)
\* ------------------------------------------------------------------------

\* stopsStep without the reset of join at a phase that is not STW.
stopsStepJoinAcross(acc, phase) ==
    IF ~phase.STW THEN acc
    ELSE IF acc.join
    THEN LET prev == acc.stw[Len(acc.stw)]
             dur1 == prev.Duration
             dur2 == phase.Duration
             f == RDiv(F(dur1), F(dur1 + dur2))
             joined == [prev EXCEPT
                          !.GCProcs = RAdd(RMul(prev.GCProcs, f),
                                           RMul(phase.GCProcs, RSub(F(1), f))),
                          !.Duration = prev.Duration + dur2,
                          !.Kind = IF prev.Kind # phase.Kind THEN PhaseMultiple ELSE prev.Kind]
         IN  [acc EXCEPT !.stw[Len(acc.stw)] = joined]
    ELSE [stw |-> Append(acc.stw, phase), join |-> TRUE]

\* Stops, one iteration of the loop on phase: acc holds stw and join.
stopsStep(acc, phase) ==
    IF ~phase.STW THEN [acc EXCEPT !.join = FALSE]
    ELSE IF acc.join
    THEN LET prev == acc.stw[Len(acc.stw)]
             dur1 == prev.Duration
             dur2 == phase.Duration
             f == RDiv(F(dur1), F(dur1 + dur2))
             joined == [prev EXCEPT
                          !.GCProcs = RAdd(RMul(prev.GCProcs, f),
                                           RMul(phase.GCProcs, RSub(F(1), f))),
                          !.Duration = prev.Duration + dur2,
                          !.Kind = IF prev.Kind # phase.Kind THEN PhaseMultiple ELSE prev.Kind]
         IN  [acc EXCEPT !.stw[Len(acc.stw)] = joined]
    ELSE [stw |-> Append(acc.stw, phase), join |-> TRUE]

RECURSIVE stopsLoop(_, _, _)
stopsLoop(lg, i, acc) ==
    IF i > Len(lg) THEN acc.stw
    ELSE CHOOSE r \in { stopsLoop(lg, i + 1, acc1) : acc1 \in { stopsStep(acc, lg[i]) } } : TRUE

\* GcStats.Stops
Stops(lg) == stopsLoop(lg, 1, [stw |-> <<>>, join |-> FALSE])

RECURSIVE maxPauseLoop(_, _, _)
maxPauseLoop(stops, i, maxpause) ==
    IF i > Len(stops) THEN maxpause
    ELSE maxPauseLoop(stops, i + 1,
                      IF stops[i].Duration > maxpause THEN stops[i].Duration ELSE maxpause)

\* MaxPause over the stop-the-world phases of the log as they stand.
MaxPauseUnjoined(lg) ==
    maxPauseLoop(SelectSeq(lg, LAMBDA p : p.STW), 1, 0)

\* GcStats.MaxPause
MaxPause(lg) == maxPauseLoop(Stops(lg), 1, 0)


\* ------------------------------------------------------------------------
\* Utilization primitives and the MMU engine (mmu.go)
\* ------------------------------------------------------------------------

\* s.log[i:] for a 1-based i
From(lg, i) == SubSeq(lg, i, Len(lg))

\* One iteration of muInWindow's loop on a phase that overlaps the window:
\* the new <<totalNS, gcNS>>.
muStep(phase, begin, end, acc) ==
    LET pbegin == int64Max(begin, phase.Begin)
        pend == int64Min(end, End(phase))
        pdur == pend - pbegin
        gcprocs == IF phase.STW THEN F(phase.Gomaxprocs) ELSE phase.GCProcs
    IN  << RAdd(acc[1], F(phase.Gomaxprocs * pdur)), RAdd(acc[2], RMul(gcprocs, F(pdur))) >>

\* The loop of muInWindow from phase i on: <<totalNS, gcNS>>.
RECURSIVE muLoop(_, _, _, _, _)
muLoop(lg, i, begin, end, acc) ==
    IF i > Len(lg) THEN acc
    ELSE IF End(lg[i]) < begin THEN muLoop(lg, i + 1, begin, end, acc)
    ELSE IF lg[i].Begin >= end THEN acc
    ELSE CHOOSE r \in { muLoop(lg, i + 1, begin, end, acc1)
                        : acc1 \in { muStep(lg[i], begin, end, acc) } } : TRUE

\* muInWindow: the mutator utilization in the window [begin, end).
muInWindow(begin, end, lg) ==
    CHOOSE r \in { RDiv(RSub(t[1], t[2]), t[1])
                   : t \in { muLoop(l, 1, b, e, <<F(0), F(0)>>)
                             : b \in {begin}, l \in {lg},
                               e \in {IF begin = end THEN end + 1 ELSE end} } } : TRUE

\* for s.log[leftIdx].End() < begin { leftIdx++ }
RECURSIVE advanceLeft(_, _, _)
advanceLeft(lg, leftIdx, begin) ==
    IF End(lg[leftIdx]) < begin THEN advanceLeft(lg, leftIdx + 1, begin) ELSE leftIdx

\* mmuStep without the window starting at phase.Begin.
mmuStepEndOnly(lg, windowNS, i, leftIdx, mmu) ==
    CHOOSE r \in
        { << left2,
             IF fits
             THEN RMin(mmu, muInWindow(begin2, end2, From(lg, left2)))
             ELSE mmu >>
          : <<begin2, end2, fits, left2>> \in
              { << End(lg[i]) - windowNS, End(lg[i]),
                   End(lg[i]) - windowNS >= lg[1].Begin,
                   IF End(lg[i]) - windowNS >= lg[1].Begin
                   THEN advanceLeft(lg, leftIdx, End(lg[i]) - windowNS)
                   ELSE leftIdx >> } } : TRUE

\* mmuStep without the window ending at phase.End().
mmuStepBeginOnly(lg, windowNS, i, leftIdx, mmu) ==
    CHOOSE r \in
        { << leftIdx,
             IF end1 <= End(lg[Len(lg)])
             THEN RMin(mmu, muInWindow(begin1, end1, From(lg, i)))
             ELSE mmu >>
          : <<begin1, end1>> \in { << lg[i].Begin, lg[i].Begin + windowNS >> } } : TRUE

\* One iteration of MMU's loop, on phase i: the new <<leftIdx, mmu>>.
mmuStep(lg, windowNS, i, leftIdx, mmu) ==
    CHOOSE r \in
        { << left2,
             IF end1 <= End(lg[Len(lg)])
             THEN (IF fits
                   THEN RMin(RMin(mmu, muInWindow(begin1, end1, From(lg, i))),
                             muInWindow(begin2, end2, From(lg, left2)))
                   ELSE RMin(mmu, muInWindow(begin1, end1, From(lg, i))))
             ELSE (IF fits
                   THEN RMin(mmu, muInWindow(begin2, end2, From(lg, left2)))
                   ELSE mmu) >>
          : <<begin1, end1, begin2, end2, fits, left2>> \in
              { << \* the window starting at phase.Begin
                   lg[i].Begin, lg[i].Begin + windowNS,
                   \* the window ending at phase.End()
                   End(lg[i]) - windowNS, End(lg[i]),
                   End(lg[i]) - windowNS >= lg[1].Begin,
                   IF End(lg[i]) - windowNS >= lg[1].Begin
                   THEN advanceLeft(lg, leftIdx, End(lg[i]) - windowNS)
                   ELSE leftIdx >> } } : TRUE

\* The loop of MMU from phase i on.
RECURSIVE mmuLoop(_, _, _, _, _)
mmuLoop(lg, windowNS, i, leftIdx, mmu) ==
    IF i > Len(lg) THEN mmu
    ELSE CHOOSE r \in { mmuLoop(lg, windowNS, i + 1, st[1], st[2])
                        : st \in { mmuStep(lg, windowNS, i, leftIdx, mmu) } } : TRUE

\* MMU with the minimum started at 0 instead of 1.
MMUFromZero(lg, progTimes, windowNS) ==
    IF ~progTimes THEN Panicked
    ELSE IF windowNS <= 0 THEN Ok(F(0))
    ELSE Ok(mmuLoop(lg, windowNS, 1, 1, F(0)))

\* GcStats.MMU on the GcStats {lg, _, progTimes}
MMU(lg, progTimes, windowNS) ==
    IF ~progTimes THEN Panicked
    ELSE IF windowNS <= 0 THEN Ok(F(0))
    ELSE Ok(mmuLoop(lg, windowNS, 1, 1, F(1)))

\* GcStats.MMUs: one call of MMU per window; the call panics when one of
\* them does.
MMUs(lg, progTimes, windowNS) ==
    CHOOSE res \in
        { IF \E i \in 1..Len(windowNS) : ~r[i].ok THEN Panicked
          ELSE Ok([i \in 1..Len(windowNS) |-> r[i].val])
          : r \in { [i \in 1..Len(windowNS) |-> MMU(lg, progTimes, windowNS[i])] } } : TRUE

\* The loop of MutatorUtilization from phase i on: <<gcNS, totalNS>>.
RECURSIVE meanLoop(_, _, _)
meanLoop(lg, i, acc) ==
    IF i > Len(lg) THEN acc
    ELSE CHOOSE r \in
           { meanLoop(lg, i + 1, acc1)
             : acc1 \in { << RAdd(acc[1], RMul(lg[i].GCProcs, F(lg[i].Duration))),
                             acc[2] + lg[i].Gomaxprocs * lg[i].Duration >> } } : TRUE

\* GcStats.MutatorUtilization
MutatorUtilization(lg, progTimes) ==
    IF ~progTimes THEN Panicked
    ELSE CHOOSE r \in { Ok(RDiv(RSub(F(t[2]), t[1]), F(t[2])))
                        : t \in { meanLoop(lg, 1, <<F(0), 0>>) } } : TRUE

\* ------------------------------------------------------------------------
\* Edge algebra (edges.go)
\* ------------------------------------------------------------------------

Uniform(l, r, area) == [l |-> l, r |-> r, area |-> area]

Edge(x, y, dirac) == [x |-> x, y |-> y, dirac |-> dirac]

\* The height changes of one uniform.
uniformDeltas(u) ==
    IF REq(u.l, u.r)
    THEN << Edge(u.l, F(0), u.area) >>
    ELSE CHOOSE r \in { << Edge(u.l, h, F(0)), Edge(u.r, RNeg(h), F(0)) >>
                        : h \in { RDiv(u.area, RSub(u.r, u.l)) } } : TRUE

\* The height changes of the uniforms, in input order.
RECURSIVE initialDeltas(_, _)
initialDeltas(us, i) ==
    IF i > Len(us) THEN <<>> ELSE uniformDeltas(us[i]) \o initialDeltas(us, i + 1)

\* sort.Sort(edges(deltas)): the order among edges of equal x is not
\* specified by sort.Sort; an insertion sort (which sort.Sort uses on short
\* slices) keeps the input order.  Edges of equal x are merged by sums, so
\* that their order changes the result by rounding only.  The edge e is
\* inserted among the first k edges of sorted.
RECURSIVE insertEdge(_, _, _)
insertEdge(sorted, k, e) ==
    IF k > 0 /\ RLt(e.x, sorted[k].x)
    THEN insertEdge(sorted, k - 1, e)
    ELSE SubSeq(sorted, 1, k) \o <<e>> \o SubSeq(sorted, k + 1, Len(sorted))

RECURSIVE sortLoop(_, _, _)
sortLoop(es, i, sorted) ==
    IF i > Len(es) THEN sorted
    ELSE CHOOSE r \in { sortLoop(es, i + 1, s1)
                        : s1 \in { insertEdge(sorted, Len(sorted), es[i]) } } : TRUE

sortEdges(es) == sortLoop(es, 1, <<>>)

\* A merge loop that starts a new edge for every input edge.
mergeStepKeepAll(deltas, in, out) ==
    IF in = out THEN << deltas, out >>
    ELSE << [deltas EXCEPT ![out + 1] = deltas[in]], out + 1 >>

\* One iteration of the merge loop: the new <<deltas, out>>, or <<>> when out
\* runs past the end of the slice and the assignment panics.
mergeStep(deltas, in, out) ==
    LET inedge == deltas[in] IN
    IF RNe(inedge.x, deltas[out].x)
    THEN CHOOSE r \in { IF out1 > Len(deltas) THEN <<>>
                        ELSE << [deltas EXCEPT ![out1] = inedge], out1 >>
                        : out1 \in { IF RNe(deltas[out].y, F(0)) \/ RNe(deltas[out].dirac, F(0))
                                     THEN out + 1 ELSE out } } : TRUE
    ELSE IF in # out
    THEN << [deltas EXCEPT ![out] =
                Edge(@.x, RAdd(@.y, inedge.y), RAdd(@.dirac, inedge.dirac))], out >>
    ELSE << deltas, out >>

\* The merge loop from input index in on (1-based; out is 1-based too).
\* The result is the merged prefix deltas[:out+1]; the loop panics when out
\* runs past the end of the slice (x # x holds for a NaN x).
RECURSIVE mergeLoop(_, _, _)
mergeLoop(deltas, in, out) ==
    IF in > Len(deltas) THEN Ok(SubSeq(deltas, 1, out))
    ELSE CHOOSE r \in { IF st = <<>> THEN Panicked ELSE mergeLoop(st[1], in + 1, st[2])
                        : st \in { mergeStep(deltas, in, out) } } : TRUE

\* The running sum that turns height changes into heights: the edges from
\* index i on, height being the sum before it.
RECURSIVE absoluteHeights(_, _, _)
absoluteHeights(deltas, i, height) ==
    IF i > Len(deltas) THEN <<>>
    ELSE CHOOSE r \in { << Edge(deltas[i].x, h, deltas[i].dirac) >>
                        \o absoluteHeights(deltas, i + 1, h)
                        : h \in { RAdd(height, deltas[i].y) } } : TRUE

\* uniformSumToEdges
uniformSumToEdges(us) ==
    IF Len(us) = 0 THEN Ok(<< Edge(F(0), F(0), F(0)) >>)
    ELSE CHOOSE r \in { IF ~merged.ok THEN Panicked
                        ELSE Ok(absoluteHeights(merged.val, 1, F(0)))
                        : merged \in { mergeLoop(sortEdges(initialDeltas(us, 1)), 1, 1) } } : TRUE

\* ------------------------------------------------------------------------
\* The MUD engine (mmu.go)
\* ------------------------------------------------------------------------

\* for s.log[k].End() <= t { k++ }: the index reached, Len(lg) + 1 when the
\* loop indexes past the end of the log (a run-time panic).
RECURSIVE advancePhase(_, _, _)
advancePhase(lg, k, t) ==
    IF k > Len(lg) THEN k
    ELSE IF End(lg[k]) <= t THEN advancePhase(lg, k + 1, t) ELSE k

\* The uniform addend of one slide of the window [begin, end), whose
\* edges are in the phases bp and ep, over duration.
slideAddend(lg, windowNS, first, lastBegin, begin, end, bp, duration) ==
    CHOOSE r \in
        { Uniform(IF RLt(rutil, lutil) THEN rutil ELSE lutil,
                  IF RLt(rutil, lutil) THEN lutil ELSE rutil,
                  RDiv(F(duration), F(lastBegin - first)))
          : <<lutil, rutil>> \in
              { << muInWindow(begin, end, From(lg, bp)),
                   IF windowNS = 0 THEN muInWindow(begin, end, From(lg, bp))
                   ELSE muInWindow(begin + duration, end + duration, From(lg, bp)) >> } } : TRUE

\* slideStep sliding until both endpoints have left their phases.
slideStepMax(lg, windowNS, first, lastBegin, begin, beginPhase, endPhase) ==
    CHOOSE r \in
        { IF bp > Len(lg) \/ ep > Len(lg) THEN <<>>
          ELSE CHOOSE q \in
                 { << begin + duration, bp, ep,
                      slideAddend(lg, windowNS, first, lastBegin, begin, end, bp, duration) >>
                   : duration \in { int64Max(End(lg[bp]) - begin, End(lg[ep]) - end) } } : TRUE
          : <<end, bp, ep>> \in
              { << begin + windowNS, advancePhase(lg, beginPhase, begin),
                   advancePhase(lg, endPhase, begin + windowNS) >> } } : TRUE

\* One iteration of the sliding loop: <<begin, beginPhase, endPhase, addend>>
\* after it, or <<>> when it indexes past the end of the log.
slideStep(lg, windowNS, first, lastBegin, begin, beginPhase, endPhase) ==
    CHOOSE r \in
        { IF bp > Len(lg) \/ ep > Len(lg) THEN <<>>
          ELSE CHOOSE q \in
                 { << begin + duration, bp, ep,
                      slideAddend(lg, windowNS, first, lastBegin, begin, end, bp, duration) >>
                   : duration \in { int64Min(End(lg[bp]) - begin, End(lg[ep]) - end) } } : TRUE
          : <<end, bp, ep>> \in
              { << begin + windowNS, advancePhase(lg, beginPhase, begin),
                   advancePhase(lg, endPhase, begin + windowNS) >> } } : TRUE

\* The sliding loop of MutatorUtilizationDistribution, which gives the
\* addends.
RECURSIVE slideLoop(_, _, _, _, _, _, _, _)
slideLoop(lg, windowNS, first, lastBegin, begin, beginPhase, endPhase, addends) ==
    IF ~(begin < lastBegin) THEN Ok(addends)
    ELSE CHOOSE r \in
           { IF st = <<>> THEN Panicked
             ELSE slideLoop(lg, windowNS, first, lastBegin, st[1], st[2], st[3],
                            Append(addends, st[4]))
             : st \in { slideStep(lg, windowNS, first, lastBegin, begin,
                                  beginPhase, endPhase) } } : TRUE

\* csums[i] is the sum up to, but not including edges[i]: the loop from
\* index k on (k >= 2), csums holding the sums up to index k - 1.
RECURSIVE cumulativeSums(_, _, _)
cumulativeSums(edges, k, csums) ==
    IF k > Len(edges) THEN csums
    ELSE CHOOSE r \in
           { cumulativeSums(edges, k + 1, Append(csums, c))
             : c \in { RAdd(RAdd(csums[k - 1],
                                 RMul(edges[k - 1].y, RSub(edges[k].x, edges[k - 1].x))),
                            edges[k - 1].dirac) } } : TRUE

\* The MUD made from the addends.
mudFromAddends(windowNS, addends) ==
    CHOOSE r \in
        { IF ~edges.ok THEN Panicked
          ELSE Ok([WindowNS |-> windowNS, edges |-> edges.val,
                   csums |-> cumulativeSums(edges.val, 2, << F(0) >>)])
          : edges \in { uniformSumToEdges(addends) } } : TRUE

\* GcStats.MutatorUtilizationDistribution
MutatorUtilizationDistribution(lg, progTimes, windowNS0) ==
    IF ~progTimes THEN Panicked
    ELSE IF Len(lg) = 0
    THEN Ok([WindowNS |-> 0, edges |-> << Edge(F(0), F(0), F(1)) >>, csums |-> << F(0) >>])
    ELSE CHOOSE r \in
           { IF ~slid.ok THEN Panicked
             ELSE IF first = lastBegin
             THEN CHOOSE q \in
                    { mudFromAddends(windowNS, Append(slid.val, Uniform(util, util, F(1))))
                      : util \in { muInWindow(first, last, lg) } } : TRUE
             ELSE mudFromAddends(windowNS, slid.val)
             : <<first, last, windowNS, lastBegin, slid>> \in
                 { << f, l, w, l - w, slideLoop(lg, w, f, l - w, f, 1, 1, <<>>) >>
                   : <<f, l, w>> \in
                       { << lg[1].Begin, End(lg[Len(lg)]),
                            int64Min(windowNS0, End(lg[Len(lg)]) - lg[1].Begin) >> } } } : TRUE

\* sort.Search(len(f), f) for the predicate whose value at index i (0-based)
\* is f[i + 1]: the binary search of package sort, from the bounds i, j on.
RECURSIVE searchLoop(_, _, _)
searchLoop(f, i, j) ==
    IF ~(i < j) THEN i
    ELSE LET h == (i + j) \div 2
         IN  IF ~f[h + 1] THEN searchLoop(f, h + 1, j) ELSE searchLoop(f, i, h)

Search(f) == searchLoop(f, 0, Len(f))

\* CDF with the search for the edge < util instead of the edge <= util.
CDFBelow(d, util) ==
    LET righti == Search([k \in 1..Len(d.edges) |-> RLe(util, d.edges[k].x)])
    IN  IF righti = 0 THEN F(0)
        ELSE LET left == d.edges[righti]
             IN  RAdd(RAdd(d.csums[righti], left.dirac), RMul(left.y, RSub(util, left.x)))

\* MUD.CDF
CDF(d, util) ==
    LET righti == Search([k \in 1..Len(d.edges) |-> RLt(util, d.edges[k].x)])
    IN  IF righti = 0 THEN F(0)
        ELSE LET left == d.edges[righti]
             IN  RAdd(RAdd(d.csums[righti], left.dirac), RMul(left.y, RSub(util, left.x)))

\* MUD.InvCDF
InvCDF(d, pctile) ==
    IF RLe(pctile, F(0)) THEN d.edges[1].x
    ELSE IF RLe(F(1), pctile) THEN d.edges[Len(d.edges)].x
    ELSE LET righti == Search([k \in 1..Len(d.csums) |-> RLt(pctile, d.csums[k])])
         IN  IF righti = 0 THEN F(0)
             ELSE LET left == d.edges[righti]
                      c == d.csums[righti]
                  IN  IF RLt(pctile, RAdd(c, left.dirac)) THEN left.x
                      ELSE RAdd(RDiv(RSub(RSub(pctile, c), left.dirac), left.y), left.x)

\* ------------------------------------------------------------------------
\* State
\* ------------------------------------------------------------------------

VARIABLES
    pc,         \* "scan": in NewFromLog's loop; "done": NewFromLog returned a
                \* GcStats; "error": it returned an error
    line,       \* scanner.Text(): the line of the current iteration
    nlines,     \* number of lines read so far
    log,        \* NewFromLog's log; after the return, GcStats.log
    n,          \* NewFromLog's n; after the return, GcStats.n
    haveBegin,  \* NewFromLog's haveBegin; after the return, GcStats.progTimes
    err,        \* the error NewFromLog returned ("" for nil)
    call,       \* the call in progress on the returned GcStats or on the MUD
                \* it returned, with its argument and what it returned
    mud,        \* the MUD returned by MutatorUtilizationDistribution
    cycle       \* the locals of phasesFromLog while the phase-per-line
                \* parser reads the phase lines of a cycle

vars == <<pc, line, nlines, log, n, haveBegin, err, call, mud, cycle>>

NoCycle == [n |-> 0, time |-> 0, gomaxprocs |-> 0, phases |-> <<>>, read |-> 0]

NoLine == [fmt |-> "none"]

NoCall == [op |-> "none"]

NoMUD == [WindowNS |-> 0, edges |-> <<>>, csums |-> <<>>]

\* ------------------------------------------------------------------------
\* Input lines
\* ------------------------------------------------------------------------

\* The sections of a well-formed Go 1.5 line.
Parts15(clock, cpu, p) ==
    << [sec |-> "clock", vals |-> clock], [sec |-> "cpu", vals |-> cpu],
       [sec |-> "other"], [sec |-> "P", val |-> p] >>

\* Go 1.5 lines tried (clock and cpu in nanoseconds).  The first has a
\* zero-length concurrent phase and fractional GCProcs; the second has
\* zero-length stop-the-world phases and a Mark phase whose cpu time exceeds
\* clock time times P; the third is a cycle all of whose clocks print as 0;
\* the last lacks the "P" section.
Bodies15 ==
    { Parts15(<<1, 1, 0, 2, 1>>, << <<2>>, <<1>>, <<0>>, <<0, 1, 0>>, <<2>> >>, 2),
      Parts15(<<0, 2, 1, 1, 0>>, << <<0>>, <<1>>, <<1>>, <<1, 2>>, <<0>> >>, 1),
      Parts15(<<0, 0, 0, 0, 0>>, << <<0>>, <<0>>, <<0>>, <<0>>, <<0>> >>, 1),
      << [sec |-> "clock", vals |-> <<1, 1, 1, 1, 1>>],
         [sec |-> "cpu", vals |-> << <<1>>, <<1>>, <<1>>, <<1>>, <<1>> >>] >> }

\* Go 1.5 lines with a missing or malformed section: no clock section, no
\* cpu section, a clock section of four segments, a cpu section of six.
Malformed15 ==
    { << [sec |-> "cpu", vals |-> << <<1>>, <<1>>, <<1>>, <<1>>, <<1>> >>],
         [sec |-> "P", val |-> 2] >>,
      << [sec |-> "clock", vals |-> <<1, 1, 1, 1, 1>>], [sec |-> "P", val |-> 2] >>,
      << [sec |-> "clock", vals |-> <<1, 1, 1, 1>>],
         [sec |-> "cpu", vals |-> << <<1>>, <<1>>, <<1>>, <<1>>, <<1>> >>],
         [sec |-> "P", val |-> 2] >>,
      << [sec |-> "clock", vals |-> <<1, 1, 1, 1, 1>>],
         [sec |-> "cpu", vals |-> << <<1>>, <<1>>, <<1>>, <<1>>, <<1>>, <<1>> >>],
         [sec |-> "P", val |-> 2] >> }

\* Go 1.4 pause fields <<stop, sweepTerm, markTerm, shrink>> tried, in
\* microseconds.
Fields14 == { <<0, 0, 0, 0>>, <<1, 0, 0, 1>>, <<0, 2, 1, 0>> }

\* The same for the traces on which utilizations are computed: a pause of
\* 1 us is 1000 ns, and the durations converted to floats stay below
\* 2^MantissaBits.
Fields14Zero == { <<0, 0, 0, 0>> }

\* Begin times tried for the next cycle: for the first cycle 0 and a time
\* late enough for a later cycle to step back by more than BackwardLimit;
\* afterwards times around the begin of the open Sweep of the previous
\* cycle, and BackwardLimit and BackwardLimit + 1 before it.
Timestamps(lg) ==
    IF lg = <<>> THEN {0, BackwardLimit + 1}
    ELSE LET base == lg[Len(lg)].Begin
         IN  {t \in {base - (BackwardLimit + 1), base - BackwardLimit, base - 1,
                     base, base + 2} : t >= 0}

\* The same for the traces on which utilizations are computed: the first
\* cycle begins at 3, a later one around the begin of the open Sweep.
TimestampsNear(lg) ==
    IF lg = <<>> THEN {3}
    ELSE LET base == lg[Len(lg)].Begin
         IN  {t \in {base - 1, base, base + 2} : t >= 0}

\* ------------------------------------------------------------------------
\* NewFromLog
\* ------------------------------------------------------------------------

Init ==
    /\ pc = "scan"
    /\ line = NoLine
    /\ nlines = 0
    /\ log = <<>>
    /\ n = 0
    /\ haveBegin = TRUE
    /\ err = ""
    /\ call = NoCall
    /\ mud = NoMUD
    /\ cycle = NoCycle

\* The flag after a Go 1.4 cycle, were it the cycle's own flag alone.
lastHaveBegin(haveBegin0, haveBegin1) == haveBegin1

\* NewFromLog's haveBegin after a Go 1.4 cycle whose line gave haveBegin1.
mergeHaveBegin(haveBegin0, haveBegin1) == haveBegin0 /\ haveBegin1

\* One iteration of the loop on a line that matches gc14Log.
ScanLine14(Fields, near) ==
    /\ pc = "scan"
    /\ nlines < MaxLines
    /\ \E f \in Fields,
          at \in {<<>>} \cup {<<t>> : t \in IF near THEN TimestampsNear(log)
                                                   ELSE Timestamps(log)} :
         LET l == [fmt |-> "gc14", n |-> n + 1, stop |-> f[1], sweepTerm |-> f[2],
                   markTerm |-> f[3], shrink |-> f[4], at |-> at]
             r == phasesFromLog14(l)
             hb == mergeHaveBegin(haveBegin, r.haveBegin)
             a == appendCycle(log, r.phases, hb)
         IN  /\ line' = l
             /\ nlines' = nlines + 1
             /\ haveBegin' = hb
             /\ IF a.err # ""
                THEN pc' = "error" /\ err' = a.err /\ UNCHANGED <<log, n>>
                ELSE log' = a.log /\ n' = n + 1 /\ UNCHANGED <<pc, err>>
    /\ UNCHANGED <<cycle, call, mud>>

\* One iteration of the loop on a line that matches gc15Head.  A panic of
\* phasesFromLog15 ends NewFromLog without a return.
ScanLine15(near) ==
    /\ pc = "scan"
    /\ nlines < MaxLines
    /\ \E b \in IF near THEN Bodies15 ELSE Bodies15 \cup Malformed15 \cup {<<>>},
          t \in IF near THEN TimestampsNear(log) ELSE Timestamps(log) :
         LET l == [fmt |-> "gc15", n |-> n + 1, ts |-> t, sep |-> b # <<>>, parts |-> b]
             r == phasesFromLog15(l)
             a == appendCycle(log, r.phases, haveBegin)
         IN  /\ line' = l
             /\ nlines' = nlines + 1
             /\ IF r.panic
                THEN pc' = "panic" /\ UNCHANGED <<log, n, err>>
                ELSE IF r.err # ""
                THEN pc' = "error" /\ err' = r.err /\ UNCHANGED <<log, n>>
                ELSE IF a.err # ""
                THEN pc' = "error" /\ err' = a.err /\ UNCHANGED <<log, n>>
                ELSE log' = a.log /\ n' = n + 1 /\ UNCHANGED <<pc, err>>
    /\ UNCHANGED <<cycle, haveBegin, call, mud>>

\* One iteration of the loop on a line that matches neither format.
ScanOtherLine ==
    /\ pc = "scan"
    /\ nlines < MaxLines
    /\ line' = [fmt |-> "other"]
    /\ nlines' = nlines + 1
    /\ UNCHANGED <<cycle, pc, log, n, haveBegin, err, call, mud>>

\* scanner.Scan() returns false: drop the open phase and return the GcStats.
ScanEOF ==
    /\ pc = "scan"
    /\ pc' = "done"
    /\ line' = NoLine
    /\ log' = dropOpenPhase(log)
    /\ UNCHANGED <<cycle, nlines, n, haveBegin, err, call, mud>>


\* ------------------------------------------------------------------------
\* Calls on the returned GcStats and on the MUDs it returns
\* ------------------------------------------------------------------------

\* last - first of a log without open phases (0 for the empty log)
Span(lg) == IF lg = <<>> THEN 0 ELSE lg[Len(lg)].Begin + lg[Len(lg)].Duration - lg[1].Begin

\* Window sizes tried.
Windows(lg) ==
    (-1 .. MaxWindow) \cup (IF lg = <<>> THEN {} ELSE {Span(lg) - 1, Span(lg), Span(lg) + 1})

\* Lists of window sizes tried with MMUs.
WindowLists == { <<>>, <<1>>, <<0, MaxWindow>> }

Grid == { Rat(k, ProbDen) : k \in -1 .. ProbDen + 1 }

Mid(a, b) == RDiv(RAdd(a, b), F(2))

\* Utilizations tried with CDF: a grid, the edges of the MUD, and the points
\* half way between two edges.
UtilProbes(d) ==
    Grid \cup { d.edges[k].x : k \in 1..Len(d.edges) }
         \cup { Mid(d.edges[k].x, d.edges[k + 1].x) : k \in 1..Len(d.edges) - 1 }

\* Percentiles tried with InvCDF: a grid, the cumulative sums of the MUD
\* before and after each Dirac, and the points half way between them.
PctileProbes(d) ==
    Grid \cup { d.csums[k] : k \in 1..Len(d.csums) }
         \cup { RAdd(d.csums[k], d.edges[k].dirac) : k \in 1..Len(d.csums) }
         \cup { Mid(d.csums[k], d.csums[k + 1]) : k \in 1..Len(d.csums) - 1 }

CallMMU ==
    /\ pc = "done"
    /\ call = NoCall
    /\ \E w \in Windows(log) :
         call' = [op |-> "MMU", arg |-> w, ret |-> MMU(log, haveBegin, w)]
    /\ UNCHANGED <<cycle, pc, line, nlines, log, n, haveBegin, err, mud>>

CallMMUs ==
    /\ pc = "done"
    /\ call = NoCall
    /\ \E ws \in WindowLists :
         call' = [op |-> "MMUs", arg |-> ws, ret |-> MMUs(log, haveBegin, ws)]
    /\ UNCHANGED <<cycle, pc, line, nlines, log, n, haveBegin, err, mud>>

CallMutatorUtilization ==
    /\ pc = "done"
    /\ call = NoCall
    /\ call' = [op |-> "MutatorUtilization", arg |-> 0,
                ret |-> MutatorUtilization(log, haveBegin)]
    /\ UNCHANGED <<cycle, pc, line, nlines, log, n, haveBegin, err, mud>>

\* A panicking call returns no MUD.
CallMutatorUtilizationDistribution ==
    /\ pc = "done"
    /\ call = NoCall
    /\ \E w \in Windows(log) :
         LET d == MutatorUtilizationDistribution(log, haveBegin, w)
         IN  /\ call' = [op |-> "MutatorUtilizationDistribution", arg |-> w,
                         ret |-> IF d.ok THEN Ok("MUD") ELSE Panicked]
             /\ mud' = IF d.ok THEN d.val ELSE NoMUD
    /\ UNCHANGED <<cycle, pc, line, nlines, log, n, haveBegin, err>>

CallCDF ==
    /\ pc = "done"
    /\ call.op = "MutatorUtilizationDistribution"
    /\ call.ret.ok
    /\ \E util \in UtilProbes(mud) :
         call' = [op |-> "CDF", arg |-> util, ret |-> Ok(CDF(mud, util))]
    /\ UNCHANGED <<cycle, pc, line, nlines, log, n, haveBegin, err, mud>>

CallInvCDF ==
    /\ pc = "done"
    /\ call.op = "MutatorUtilizationDistribution"
    /\ call.ret.ok
    /\ \E pctile \in PctileProbes(mud) :
         call' = [op |-> "InvCDF", arg |-> pctile, ret |-> Ok(InvCDF(mud, pctile))]
    /\ UNCHANGED <<cycle, pc, line, nlines, log, n, haveBegin, err, mud>>

\* The caller is done with the result of its call (and with the MUD, if the
\* call returned one) and may make another call.
Return ==
    /\ pc = "done"
    /\ call # NoCall
    /\ call' = NoCall
    /\ mud' = NoMUD
    /\ UNCHANGED <<cycle, pc, line, nlines, log, n, haveBegin, err>>

\* ------------------------------------------------------------------------
\* Specifications
\* ------------------------------------------------------------------------

Calls ==
    \/ CallMMU
    \/ CallMMUs
    \/ CallMutatorUtilization
    \/ CallMutatorUtilizationDistribution
    \/ CallCDF
    \/ CallInvCDF
    \/ Return

\* NewFromLog on the traces of Fields14Zero, Bodies15 and TimestampsNear, and
\* the calls on the GcStats it returns.
Next ==
    \/ ScanLine14(Fields14Zero, TRUE)
    \/ ScanLine15(TRUE)
    \/ ScanOtherLine
    \/ ScanEOF
    \/ Calls

Spec == Init /\ [][Next]_vars

\* NewFromLog alone, on the traces of Fields14, Bodies15 and Timestamps.
NextTrace ==
    \/ ScanLine14(Fields14, FALSE)
    \/ ScanLine15(FALSE)
    \/ ScanOtherLine
    \/ ScanEOF

SpecTrace == Init /\ [][NextTrace]_vars

\* ------------------------------------------------------------------------
\* NewFromLog of the phase-per-line parser
\* ------------------------------------------------------------------------

\* Phase lines a cycle may hold at most in the traces tried: one more than a
\* complete cycle has.
MaxPhaseLines == 6

\* Header lines tried, for the k-th line of the trace that is not a phase
\* line (k is its cycle number): the cycle begins at or after the begin of the last
\* phase of the log.
Headers(lg, k) ==
    { [fmt |-> "gc", n |-> k, time |-> t, gomaxprocs |-> 2]
      : t \in IF lg = <<>> THEN {10} ELSE {lg[Len(lg)].Begin, lg[Len(lg)].Begin + 5} }

\* Go 1.4 lines tried.
Lines14(lg, k) ==
    { [fmt |-> "gc14", n |-> k, stop |-> 1, sweepTerm |-> 0, markTerm |-> 0,
       shrink |-> 1, at |-> at]
      : at \in {<<>>, <<IF lg = <<>> THEN 10 ELSE lg[Len(lg)].Begin + 5>>} }

\* Lines that may follow the phase lines of a cycle, or follow one another
\* outside a cycle.
TopLines(lg, k) == Headers(lg, k) \cup Lines14(lg, k) \cup {[fmt |-> "other"]}

\* Phase lines tried after i phases of a cycle with gomaxprocs procs were
\* recognized: the line a trace has at this place (a seventh line is another
\* mark), a line with an unknown phase name, a line with a bad procs.
PhaseLines(i, procs) ==
    LET name == IF i < 5 THEN <<"sweep term", "scan", "install wb", "mark", "mark term">>[i + 1]
                ELSE "mark"
        f == IF name \in {"sweep term", "mark term"} THEN F(procs) ELSE F(0)
    IN  { [fmt |-> "phase", name |-> name, dur |-> i + 1, procs |-> <<f>>],
          [fmt |-> "phase", name |-> "idle", dur |-> 1, procs |-> <<f>>],
          [fmt |-> "phase", name |-> name, dur |-> 1, procs |-> <<>>] }

\* scanner.Scan() of the loop of NewFromLog returns a line.
ScanBE ==
    /\ pc = "scan"
    /\ nlines < MaxLines
    /\ \E l \in TopLines(log, nlines + 1) : line' = l
    /\ nlines' = nlines + 1
    /\ pc' = "line"
    /\ UNCHANGED <<log, n, haveBegin, err, call, mud, cycle>>

\* scanner.Scan() of the loop of NewFromLog returns false, at the end of the
\* input or on a read error.
ScanEOFBE ==
    /\ pc = "scan"
    /\ \E scanErr \in BOOLEAN :
         IF scanErr
         THEN pc' = "error" /\ err' = "read error" /\ UNCHANGED log
         ELSE pc' = "done" /\ log' = dropOpenPhaseBE(log) /\ UNCHANGED err
    /\ line' = NoLine
    /\ UNCHANGED <<nlines, n, haveBegin, call, mud, cycle>>

\* At skipScan with a line that matches gc14Log.
Line14BE ==
    /\ pc = "line"
    /\ line.fmt = "gc14"
    /\ LET r == phasesFromLog14BE(line)
       IN  /\ haveBegin' = (haveBegin /\ r.haveBegin)
           /\ log' = appendCycleBE(log, r.phases)
    /\ n' = n + 1
    /\ pc' = "scan"
    /\ UNCHANGED <<line, nlines, err, call, mud, cycle>>

\* At skipScan with a line that matches gcLog: phasesFromLog is entered.
HeaderBE ==
    /\ pc = "line"
    /\ line.fmt = "gc"
    /\ cycle' = startCycle(line)
    /\ pc' = "phases"
    /\ UNCHANGED <<line, nlines, log, n, haveBegin, err, call, mud>>

\* At skipScan with a line that matches neither.
OtherLineBE ==
    /\ pc = "line"
    /\ line.fmt \notin {"gc14", "gc"}
    /\ pc' = "scan"
    /\ UNCHANGED <<line, nlines, log, n, haveBegin, err, call, mud, cycle>>

\* scanner.Scan() of the loop of phasesFromLog returns a line that matches
\* phaseLog.
PhaseLineBE ==
    /\ pc = "phases"
    /\ cycle.read < MaxPhaseLines
    /\ \E pl \in PhaseLines(Len(cycle.phases), cycle.gomaxprocs) :
         /\ line' = pl
         /\ cycle' = appendPhase(cycle, pl)
    /\ UNCHANGED <<pc, nlines, log, n, haveBegin, err, call, mud>>

\* The loop of phasesFromLog ends: on a line that does not match phaseLog, at
\* the end of the input (scanner.Text() is then the empty line) or on a read
\* error.  phasesFromLog returns, NewFromLog appends the cycle if there is
\* one and goes to skipScan with the line that ended the loop; after a read
\* error its own scanner.Scan() fails and it returns the error.
EndPhasesBE ==
    /\ pc = "phases"
    /\ \E scanErr \in BOOLEAN,
          l \in (IF nlines < MaxLines THEN TopLines(log, nlines + 1) ELSE {}) \cup {[fmt |-> "eof"]} :
         LET r == endCycle(cycle, scanErr)
         IN  /\ line' = IF scanErr THEN NoLine ELSE l
             /\ nlines' = IF scanErr \/ l.fmt = "eof" THEN nlines ELSE nlines + 1
             /\ IF r.phases # <<>>
                THEN log' = appendCycleBE(log, r.phases) /\ n' = n + 1
                ELSE UNCHANGED <<log, n>>
             /\ IF r.nextLine
                THEN pc' = "line" /\ UNCHANGED err
                ELSE pc' = "error" /\ err' = "read error"
    /\ cycle' = NoCycle
    /\ UNCHANGED <<haveBegin, call, mud>>

NextBE ==
    \/ ScanBE
    \/ ScanEOFBE
    \/ Line14BE
    \/ HeaderBE
    \/ OtherLineBE
    \/ PhaseLineBE
    \/ EndPhasesBE

SpecBE == Init /\ [][NextBE]_vars


\* ------------------------------------------------------------------------
\* NewFromLog on the text of a Go 1.5 line
\* ------------------------------------------------------------------------

\* Decimal texts tried for the five clock times, the cpu times and P of a
\* line: times as the runtime prints them ("0.018+4.1+0+2+1.3 ms clock"),
\* whole milliseconds, a cycle of zero clocks, and hundredths.
TextBodies15 ==
    { [clock |-> << <<18, 1000>>, <<41, 10>>, <<0, 1>>, <<2, 1>>, <<13, 10>> >>,
       cpu |-> << << <<72, 1000>> >>, << <<41, 10>> >>, << <<0, 1>> >>,
                  << <<0, 1>>, <<2, 1>>, <<0, 1>> >>, << <<52, 10>> >> >>,
       p |-> 4],
      [clock |-> << <<1, 1>>, <<2, 1>>, <<0, 1>>, <<3, 1>>, <<1, 1>> >>,
       cpu |-> << << <<2, 1>> >>, << <<1, 1>> >>, << <<0, 1>> >>,
                  << <<1, 1>>, <<1, 1>>, <<0, 1>> >>, << <<2, 1>> >> >>,
       p |-> 2],
      [clock |-> << <<0, 1>>, <<0, 1>>, <<0, 1>>, <<0, 1>>, <<0, 1>> >>,
       cpu |-> << << <<0, 1>> >>, << <<0, 1>> >>, << <<0, 1>> >>,
                  << <<0, 1>> >>, << <<0, 1>> >> >>,
       p |-> 1],
      [clock |-> << <<29, 100>>, <<201, 100>>, <<5, 100>>, <<100, 100>>, <<7, 100>> >>,
       cpu |-> << << <<58, 100>> >>, << <<201, 100>> >>, << <<5, 100>> >>,
                  << <<30, 100>>, <<25, 100>>, <<0, 1>> >>, << <<14, 100>> >> >>,
       p |-> 2] }

\* Begin times tried, in thousandths of a second: "@0.990s" to "@1.010s".
TextTimes15 == { <<k, 1000>> : k \in 990..1010 }

\* One iteration of the loop of NewFromLog on the first line of a trace, a
\* Go 1.5 line given by its decimal texts.
ScanText15 ==
    /\ pc = "scan"
    /\ nlines = 0
    /\ \E ts \in TextTimes15, b \in TextBodies15 :
         LET text == [fmt |-> "text15", n |-> 1, ts |-> ts, clock |-> b.clock,
                      cpu |-> b.cpu, p |-> b.p]
         IN  \E l \in { convertLine15(text) } :
               LET r == phasesFromLog15(l)
                   a == appendCycle(log, r.phases, haveBegin)
               IN  /\ line' = text
                   /\ nlines' = nlines + 1
                   /\ IF r.panic
                      THEN pc' = "panic" /\ UNCHANGED <<log, n, err>>
                      ELSE IF r.err # ""
                      THEN pc' = "error" /\ err' = r.err /\ UNCHANGED <<log, n>>
                      ELSE IF a.err # ""
                      THEN pc' = "error" /\ err' = a.err /\ UNCHANGED <<log, n>>
                      ELSE log' = a.log /\ n' = n + 1 /\ UNCHANGED <<pc, err>>
    /\ UNCHANGED <<cycle, haveBegin, call, mud>>

NextText ==
    \/ ScanText15
    \/ ScanEOF

SpecText == Init /\ [][NextText]_vars

\* ------------------------------------------------------------------------
\* The GCProcs of one phase of a Go 1.5 line
\* ------------------------------------------------------------------------

\* Decimal texts tried for the clock time of a phase, in milliseconds: "0",
\* "0.018", "1.3", "2", "0.29", "2.01".
ClockTexts == { <<0, 1>>, <<18, 1000>>, <<13, 10>>, <<2, 1>>, <<29, 100>>, <<201, 100>> }

\* Decimal texts tried for the cpu segment of a phase: "0", "0.072", "5.2",
\* "8.2", "0/2/0", "0.30/0.25/0", "2.01".
CPUTexts ==
    { << <<0, 1>> >>, << <<72, 1000>> >>, << <<52, 10>> >>, << <<82, 10>> >>,
      << <<0, 1>>, <<2, 1>>, <<0, 1>> >>, << <<30, 100>>, <<25, 100>>, <<0, 1>> >>,
      << <<201, 100>> >> }

\* The P of the line.
ProcsTexts == {1, 4}

\* No trace is read in this specification.
InitProcs ==
    /\ pc = "done"
    /\ line = NoLine
    /\ nlines = 0
    /\ log = <<>>
    /\ n = 0
    /\ haveBegin = TRUE
    /\ err = ""
    /\ call = NoCall
    /\ mud = NoMUD
    /\ cycle = NoCycle

\* The iteration for phase i of the loop of phasesFromLog15 that creates
\* the phases, on the clock and cpu texts of the phase.
CallProcs15 ==
    /\ pc = "done"
    /\ call = NoCall
    /\ \E i \in 1..5, clock \in ClockTexts, cpu \in CPUTexts, p \in ProcsTexts :
         call' = [op |-> "procs15",
                  arg |-> [i |-> i, clock |-> clock, cpu |-> cpu, p |-> p],
                  ret |-> Ok(procs15(i, atofTimes(clock, Millisecond),
                                     cpuOfSegment(cpu, Len(cpu)), p))]
    /\ UNCHANGED <<pc, line, nlines, log, n, haveBegin, err, mud, cycle>>

NextProcs ==
    \/ CallProcs15
    \/ Return

SpecProcs == InitProcs /\ [][NextProcs]_vars

\* ------------------------------------------------------------------------
\* uniformSumToEdges on lists of uniforms
\* ------------------------------------------------------------------------

\* The longest list of uniforms tried, the lists of the tests apart.
MaxUniforms == 2

\* The uniforms tried: ends on the quarters of [0, 1], l <= r, and areas 1/4
\* and 1/2.
GridUniforms ==
    { Uniform(Rat(p[1], 4), Rat(p[2], 4), Rat(c, 4)) :
        p \in { q \in (0..4) \X (0..4) : q[1] <= q[2] }, c \in 1..2 }

RECURSIVE UniformLists(_)
UniformLists(len) ==
    IF len = 0 THEN {<<>>}
    ELSE { Append(us, u) : us \in UniformLists(len - 1), u \in GridUniforms }

\* The lists of TestEdgesNonOverlapping, TestEdgesOverlapping,
\* TestEdgesNested, TestEdgesAligned, TestEdgesDeltas, TestEdgesNestedDelta
\* and TestEdgesAlignedDeltas.
TestUniformLists ==
    { << Uniform(F(0), F(1), Rat(1, 2)), Uniform(F(2), F(3), Rat(1, 2)) >>,
      << Uniform(F(0), F(1), Rat(1, 2)), Uniform(Rat(1, 2), Rat(3, 2), Rat(1, 2)) >>,
      << Uniform(F(0), F(2), Rat(1, 2)), Uniform(Rat(1, 2), Rat(3, 2), Rat(1, 2)) >>,
      << Uniform(F(0), F(2), Rat(1, 2)), Uniform(F(0), F(1), Rat(1, 4)),
         Uniform(F(1), F(2), Rat(1, 4)) >>,
      << Uniform(F(0), F(0), Rat(1, 2)), Uniform(F(1), F(1), Rat(1, 2)) >>,
      << Uniform(F(0), F(1), Rat(1, 2)), Uniform(Rat(1, 2), Rat(1, 2), Rat(1, 2)) >>,
      << Uniform(F(0), F(1), Rat(1, 4)), Uniform(F(1), F(1), Rat(1, 4)),
         Uniform(F(1), F(1), Rat(1, 4)), Uniform(F(1), F(2), Rat(1, 4)) >> }

\* No trace is read in this specification.
InitEdges ==
    /\ pc = "done"
    /\ line = NoLine
    /\ nlines = 0
    /\ log = <<>>
    /\ n = 0
    /\ haveBegin = TRUE
    /\ err = ""
    /\ call = NoCall
    /\ mud = NoMUD
    /\ cycle = NoCycle

CallUniformSumToEdges ==
    /\ pc = "done"
    /\ call = NoCall
    /\ \E us \in TestUniformLists \cup UNION { UniformLists(len) : len \in 0..MaxUniforms } :
         call' = [op |-> "uniformSumToEdges", arg |-> us, ret |-> uniformSumToEdges(us)]
    /\ UNCHANGED <<pc, line, nlines, log, n, haveBegin, err, mud, cycle>>

NextEdges ==
    \/ CallUniformSumToEdges
    \/ Return

SpecEdges == InitEdges /\ [][NextEdges]_vars

\* ------------------------------------------------------------------------
\* Stops and MaxPause on the logs of a GcStats
\* ------------------------------------------------------------------------

\* The longest log tried.
MaxPhases == 4

\* The phases tried at one place of a log: a SweepTerm and a MarkTerm, both
\* stop-the-world, and a concurrent Mark, of durations 0, 1 and 2.
PhaseShapes ==
    { [Kind |-> k[1], STW |-> k[2], Duration |-> d]
      : k \in {<<PhaseSweepTerm, TRUE>>, <<PhaseMarkTerm, TRUE>>, <<PhaseMark, FALSE>>},
        d \in 0..2 }

\* The logs of len phases in which every phase begins where the one before
\* it ends.
RECURSIVE LogsOfLen(_)
LogsOfLen(len) ==
    IF len = 0 THEN {<<>>}
    ELSE { Append(lg, Phase(IF lg = <<>> THEN 0 ELSE End(lg[Len(lg)]), sh.Duration, sh.Kind,
                            1, 1, IF sh.STW THEN F(1) ELSE F(0), sh.STW))
           : lg \in LogsOfLen(len - 1), sh \in PhaseShapes }

\* A GcStats with any of these logs.
InitStops ==
    /\ pc = "done"
    /\ line = NoLine
    /\ nlines = 0
    /\ log \in UNION { LogsOfLen(len) : len \in 0..MaxPhases }
    /\ n = 1
    /\ haveBegin = TRUE
    /\ err = ""
    /\ call = NoCall
    /\ mud = NoMUD
    /\ cycle = NoCycle

CallStops ==
    /\ pc = "done"
    /\ call = NoCall
    /\ call' = [op |-> "Stops", arg |-> 0, ret |-> Ok(Stops(log))]
    /\ UNCHANGED <<pc, line, nlines, log, n, haveBegin, err, mud, cycle>>

CallMaxPause ==
    /\ pc = "done"
    /\ call = NoCall
    /\ call' = [op |-> "MaxPause", arg |-> 0, ret |-> Ok(MaxPause(log))]
    /\ UNCHANGED <<pc, line, nlines, log, n, haveBegin, err, mud, cycle>>

NextStops ==
    \/ CallStops
    \/ CallMaxPause
    \/ Return

SpecStops == InitStops /\ [][NextStops]_vars

\* ------------------------------------------------------------------------
\* Stops on runs of stop-the-world phases
\* ------------------------------------------------------------------------

\* The longest run tried.
MaxRun == 3

\* The stop-the-world phases tried at one place of a run: of duration 0, 1
\* or 3, with 1, 2 or 4 procs at work.
RunShapes ==
    { [Duration |-> d, GCProcs |-> F(g)] : d \in {0, 1, 3}, g \in {1, 2, 4} }

\* The logs that are one run of len stop-the-world phases, SweepTerm and
\* MarkTerm in turn, each beginning where the one before it ends.
RECURSIVE RunsOfLen(_)
RunsOfLen(len) ==
    IF len = 0 THEN {<<>>}
    ELSE { Append(lg, Phase(IF lg = <<>> THEN 0 ELSE End(lg[Len(lg)]), sh.Duration,
                            IF len % 2 = 1 THEN PhaseSweepTerm ELSE PhaseMarkTerm,
                            1, 4, sh.GCProcs, TRUE))
           : lg \in RunsOfLen(len - 1), sh \in RunShapes }

\* A GcStats with any of these logs.
InitRuns ==
    /\ pc = "done"
    /\ line = NoLine
    /\ nlines = 0
    /\ log \in UNION { RunsOfLen(len) : len \in 0..MaxRun }
    /\ n = 1
    /\ haveBegin = TRUE
    /\ err = ""
    /\ call = NoCall
    /\ mud = NoMUD
    /\ cycle = NoCycle

NextRuns ==
    \/ CallStops
    \/ Return

SpecRuns == InitRuns /\ [][NextRuns]_vars

\* ------------------------------------------------------------------------
\* Properties of NewFromLog
\* ------------------------------------------------------------------------

\* The begin time a cycle line gives for the first phase of its cycle.
FirstBegin(l) == IF l.fmt = "gc14" THEN l.at[1] ELSE l.ts

IsCycleLine(l) == l.fmt = "gc14" \/ l.fmt = "gc15"

\* C1: in every GcStats NewFromLog returns with HaveProgTimes() true, every
\* phase ends exactly where the next one begins.
C1_PhasesAbut ==
    (pc = "done" /\ haveBegin) =>
        \A i \in 1..Len(log) - 1 : log[i].Begin + log[i].Duration = log[i + 1].Begin

\* A returned GcStats with program times that holds a legacy cycle followed
\* by a modern one (3 + 5 phases) whose overlap was repaired: only a repair
\* closes a Sweep with duration 1.
C1_Witness ==
    /\ pc = "done"
    /\ haveBegin
    /\ Len(log) = 8
    /\ log[3].Kind = PhaseSweep
    /\ log[3].Duration = 1
    /\ log[1].Duration > 0

\* C10: while program times are available, a cycle (a line the line parsers
\* turned into phases) whose first phase begins
\* delta > 0 nanoseconds before the begin of the open Sweep of the previous
\* cycle makes NewFromLog return the error "GC trace goes backward" (and no
\* GcStats) exactly when delta > 5,000,000; otherwise the overlap is
\* repaired (the Sweep is closed, the cycle is appended) and the loop goes
\* on.
C10_BackwardLimit ==
    [][ ( /\ pc = "scan"
          /\ IsCycleLine(line')
          /\ haveBegin'
          /\ Len(log) > 0
          /\ pc' # "panic"
          /\ ~(pc' = "error" /\ err' # "GC trace goes backward") )
        => LET delta == log[Len(log)].Begin - FirstBegin(line')
           IN  /\ (pc' = "error") = (delta > BackwardLimit)
               /\ pc' = "error" => /\ err' = "GC trace goes backward"
                                   /\ log' = log
               /\ (0 < delta /\ delta <= BackwardLimit) =>
                     /\ pc' = "scan"
                     /\ n' = n + 1
                     /\ Len(log') > Len(log)
                     /\ log'[Len(log)].Duration # -1
      ]_vars

\* NewFromLog has returned the error on a step back of exactly one
\* nanosecond more than the limit.
C10_Witness ==
    /\ pc = "error"
    /\ err = "GC trace goes backward"
    /\ log[Len(log)].Begin - FirstBegin(line) = BackwardLimit + 1

\* ------------------------------------------------------------------------
\* Properties of MMU
\* ------------------------------------------------------------------------

\* The integer start positions of the windows of size w that lie inside the
\* log.
Starts(lg, w) == lg[1].Begin .. (End(lg[Len(lg)]) - w)

IsPhaseBegin(lg, b) == \E i \in 1..Len(lg) : lg[i].Begin = b

\* C2: on a non-empty log with program times and for a window size w with
\* 0 < w <= last - first, MMU(w) is the value of
\* MutatorUtilizationDistribution(w).InvCDF(0).
C2_MMUIsInvCDF0 ==
    (/\ call.op = "MMU"
     /\ call.ret.ok
     /\ log # <<>>
     /\ 0 < call.arg
     /\ call.arg <= Span(log))
    => \E d \in { MutatorUtilizationDistribution(log, haveBegin, call.arg) } :
         /\ d.ok
         /\ call.ret.val = InvCDF(d.val, F(0))

\* MMU has returned a utilization strictly between 0 and 1 for a window
\* shorter than the log.
C2_Witness ==
    /\ call.op = "MMU"
    /\ call.ret.ok
    /\ log # <<>>
    /\ 0 < call.arg
    /\ call.arg < Span(log)
    /\ RLt(F(0), call.ret.val)
    /\ RLt(call.ret.val, F(1))

Excess(lg, w, b, util) ==
    CHOOSE r \in { RSub(RSub(t[1], t[2]), RMul(util, t[1]))
                   : t \in { muLoop(lg, 1, b, b + w, <<F(0), F(0)>>) } } : TRUE

\* The length of the part of [b, b + 1] that holds the start positions of
\* windows of size w with utilization <= util.
MeasureBelow(lg, w, b, util) ==
    CHOOSE r \in
        { IF RLe(g[1], F(0)) /\ RLe(g[2], F(0)) THEN F(1)
          ELSE IF RLe(g[1], F(0)) THEN RDiv(g[1], RSub(g[1], g[2]))
          ELSE IF RLe(g[2], F(0)) THEN RSub(F(1), RDiv(g[1], RSub(g[1], g[2])))
          ELSE F(0)
          : g \in { << Excess(lg, w, b, util), Excess(lg, w, b + 1, util) >> } } : TRUE

RECURSIVE SumMeasure(_, _, _, _, _)
SumMeasure(lg, w, b, util, acc) ==
    IF b >= End(lg[Len(lg)]) - w THEN acc
    ELSE CHOOSE r \in { SumMeasure(lg, w, b + 1, util, acc1)
                        : acc1 \in { RAdd(acc, MeasureBelow(lg, w, b, util)) } } : TRUE

\* The fraction of the window start positions in [first, last - w] whose
\* window of size w has mutator utilization <= util.
FractionBelow(lg, w, util) ==
    RDiv(SumMeasure(lg, w, lg[1].Begin, util, F(0)), F(Span(lg) - w))

\* Gomaxprocs is the same in every phase of the log.
ConstantProcs(lg) == \A i, j \in 1..Len(lg) : lg[i].Gomaxprocs = lg[j].Gomaxprocs

\* |a - b| <= 1/64: a and b are equal up to the rounding of the arithmetic.
Near(a, b) == RLe(RSub(a, b), Rat(1, 64)) /\ RLe(RSub(b, a), Rat(1, 64))

\* C4: for a window w with 0 < w < last - first, CDF(u) of
\* MutatorUtilizationDistribution(w) is (up to rounding) the fraction of the
\* window start positions in [first, last - w] whose window has utilization
\* <= u.
C4_CDFIsFractionOfWindows ==
    (/\ call.op = "CDF"
     /\ 0 < mud.WindowNS
     /\ mud.WindowNS < Span(log))
    => Near(call.ret.val, FractionBelow(log, mud.WindowNS, call.arg))

\* The same, on the logs whose phases all have the same Gomaxprocs.
C4_CDFIsFractionConstantProcs ==
    (/\ call.op = "CDF"
     /\ 0 < mud.WindowNS
     /\ mud.WindowNS < Span(log)
     /\ ConstantProcs(log))
    => Near(call.ret.val, FractionBelow(log, mud.WindowNS, call.arg))

\* x, the utilizations above the last edge included.
ProbesWithTail(d) == UtilProbes(d) \cup { RAdd(d.edges[Len(d.edges)].x, F(1)) }

\* The area under the edges k..: the sum of y * width and of the Diracs.
RECURSIVE TotalMass(_, _, _)
TotalMass(edges, k, acc) ==
    IF k > Len(edges) THEN acc
    ELSE CHOOSE r \in
           { TotalMass(edges, k + 1, acc1)
             : acc1 \in { RAdd(RAdd(acc, edges[k].dirac),
                               IF k = Len(edges) THEN Zero
                               ELSE RMul(edges[k].y, RSub(edges[k + 1].x, edges[k].x))) } } : TRUE

\* C5: the CDF of a MUD built from a non-empty log is a distribution
\* function: non-decreasing, 0 below the first edge, 1 at the last edge and
\* above it; the y * width of the edges and the Diracs sum to 1, no edge
\* has a negative height and the height of the last edge is 0.
C5_CDFIsDistribution ==
    (mud # NoMUD /\ log # <<>>) =>
        /\ \A x, y \in ProbesWithTail(mud) : RLe(x, y) => RLe(CDF(mud, x), CDF(mud, y))
        /\ \A x \in ProbesWithTail(mud) :
             /\ RLt(x, mud.edges[1].x) => CDF(mud, x) = Zero
             /\ RLe(mud.edges[Len(mud.edges)].x, x) => CDF(mud, x) = F(1)
        /\ TotalMass(mud.edges, 1, Zero) = F(1)
        /\ \A k \in 1..Len(mud.edges) : RLe(Zero, mud.edges[k].y)
        /\ mud.edges[Len(mud.edges)].y = Zero

\* x lies strictly between two edges of d, where the density is positive.
InPositiveDensity(d, x) ==
    \E k \in 1..Len(d.edges) - 1 :
        /\ RLt(d.edges[k].x, x)
        /\ RLt(x, d.edges[k + 1].x)
        /\ RLt(Zero, d.edges[k].y)

\* C6: for every MUD and every p in (0, 1), CDF(InvCDF(p)) >= p and
\* CDF(x) <= p for every x < InvCDF(p); and InvCDF(CDF(x)) = x for every x
\* strictly inside a region of positive density.
C6_CDFInvCDFGalois ==
    /\ (call.op = "InvCDF" /\ RLt(Zero, call.arg) /\ RLt(call.arg, F(1))) =>
          /\ RLe(call.arg, CDF(mud, call.ret.val))
          /\ \A x \in UtilProbes(mud) :
               RLt(x, call.ret.val) => RLe(CDF(mud, x), call.arg)
    /\ (call.op = "CDF" /\ InPositiveDensity(mud, call.arg)) =>
          InvCDF(mud, call.ret.val) = call.arg

\* InvCDF(pctile) reaches its last statement, the division by left.y, with
\* left.y = 0.
DividesByZeroHeight(d, pctile) ==
    /\ RLt(Zero, pctile)
    /\ RLt(pctile, F(1))
    /\ \E righti \in { Search([k \in 1..Len(d.csums) |-> RLt(pctile, d.csums[k])]) } :
         /\ righti # 0
         /\ ~RLt(pctile, RAdd(d.csums[righti], d.edges[righti].dirac))
         /\ d.edges[righti].y = Zero

\* C7: InvCDF(p) is the x of the first edge for p <= 0 and the x of the last
\* edge for p >= 1; for p in (0, 1) it is finite and lies between the two,
\* and the division by the height of an edge is never reached with a
\* height of 0.
C7_InvCDFInSupport ==
    call.op = "InvCDF" =>
        /\ RLe(call.arg, Zero) => call.ret.val = mud.edges[1].x
        /\ RLe(F(1), call.arg) => call.ret.val = mud.edges[Len(mud.edges)].x
        /\ (RLt(Zero, call.arg) /\ RLt(call.arg, F(1))) =>
              /\ IsNum(call.ret.val)
              /\ RLe(mud.edges[1].x, call.ret.val)
              /\ RLe(call.ret.val, mud.edges[Len(mud.edges)].x)
              /\ ~DividesByZeroHeight(mud, call.arg)

\* ------------------------------------------------------------------------
\* Properties of the calls on a GcStats
\* ------------------------------------------------------------------------

\* C8: on a GcStats with program times, MMU(w) is in [0, 1] for every
\* window w, and is 0 for every w <= 0.
C8_MMUInUnitInterval ==
    (call.op = "MMU" /\ haveBegin) =>
        /\ call.ret.ok
        /\ RLe(Zero, call.ret.val)
        /\ RLe(call.ret.val, F(1))
        /\ call.arg <= 0 => call.ret.val = Zero

\* C9: without program times, MMU, MMUs, MutatorUtilizationDistribution and
\* MutatorUtilization panic, whatever their argument.
C9_PanicWithoutProgTimes ==
    (/\ ~haveBegin
     /\ call.op \in {"MMU", "MMUs", "MutatorUtilizationDistribution", "MutatorUtilization"})
    => ~call.ret.ok

\* ------------------------------------------------------------------------
\* Malformed Go 1.5 lines
\* ------------------------------------------------------------------------

\* The line has no section of kind sec.
LacksSection(l, sec) == \A i \in 1..Len(l.parts) : l.parts[i].sec # sec

\* A clock or cpu section of the line does not have five segments.
WrongSegments(l) ==
    \E i \in 1..Len(l.parts) :
        l.parts[i].sec \in {"clock", "cpu"} /\ Len(l.parts[i].vals) # 5

IsMalformed15(l) ==
    /\ l.fmt = "gc15"
    /\ \/ LacksSection(l, "clock")
       \/ LacksSection(l, "cpu")
       \/ LacksSection(l, "P")
       \/ WrongSegments(l)

\* C11: a line recognized as a Go 1.5 cycle header that lacks the clock, the
\* cpu or the P section, or whose clock or cpu section does not have exactly
\* five segments, makes NewFromLog return an error and no GcStats, however
\* many cycles were accepted before it.
C11_MalformedLineIsError ==
    [][ (pc = "scan" /\ IsMalformed15(line'))
        => (pc' = "error" /\ err' # "" /\ log' = log /\ n' = n) ]_vars

\* C11 for the lines that contain ": " after the head.
C11_MalformedSectionsIsError ==
    [][ (pc = "scan" /\ IsMalformed15(line') /\ line'.sep)
        => (pc' = "error" /\ err' # "" /\ log' = log /\ n' = n) ]_vars

\* NewFromLog has panicked on a header line without ": " after a cycle was
\* accepted.
C11_PanicReached == pc = "panic" /\ ~line.sep /\ n = 1


\* ------------------------------------------------------------------------
\* Properties of the phase-per-line parser
\* ------------------------------------------------------------------------

\* C12: in the phase-per-line parser a cycle whose header is followed by a
\* number of recognized phase lines other than five is discarded: it adds no
\* phase to the log and does not count; parsing goes on with the line that
\* ended the phase lines, which is examined as a possible header, and a cycle
\* with five recognized phase lines is appended with its six phases and
\* counted, also right after a discarded one.
C12_ShortCycleDiscarded ==
    [][ /\ (pc = "phases" /\ pc' \notin {"phases", "error"} /\ Len(cycle.phases) # 5)
            => (log' = log /\ n' = n /\ pc' = "line" /\ line'.fmt # "phase")
        /\ (pc = "line" /\ line.fmt = "gc")
            => (pc' = "phases" /\ cycle' = startCycle(line))
        /\ (pc = "phases" /\ pc' \notin {"phases", "error"} /\ Len(cycle.phases) = 5)
            => /\ n' = n + 1
               /\ Len(log') = Len(log) + 6
               /\ SubSeq(log', Len(log) + 1, Len(log') ) = withSweep(cycle)
               /\ pc' = "line"
      ]_vars

\* The first cycle of the trace was discarded and the cycle whose header
\* ended its phase lines was accepted: the returned log holds the five closed
\* phases of cycle 2 only.
C12_Witness ==
    /\ pc = "done"
    /\ nlines = 2
    /\ n = 1
    /\ Len(log) = 5
    /\ log[1].N = 2


\* ------------------------------------------------------------------------
\* Properties of the phases NewFromLog returns
\* ------------------------------------------------------------------------

\* C13: every phase of every GcStats NewFromLog returns has
\* 0 <= GCProcs <= Gomaxprocs.
C13_GCProcsBounded ==
    pc = "done" =>
        \A i \in 1..Len(log) :
            RLe(Zero, log[i].GCProcs) /\ RLe(log[i].GCProcs, F(log[i].Gomaxprocs))

\* C14: HaveProgTimes() of the returned GcStats is true exactly if every
\* accepted Go 1.4 cycle carried @T: the flag starts true, an accepted Go 1.4
\* line without @T clears it, and no other line (Go 1.4 with @T, Go 1.5 or
\* any other) and no later step changes it.
C14_HaveProgTimesIsConjunction ==
    /\ haveBegin = TRUE
    /\ [][ haveBegin' = (haveBegin /\ ~(pc = "scan" /\ pc' = "scan"
                                        /\ line'.fmt = "gc14" /\ line'.at = <<>>)) ]_vars

\* A GcStats without program times was returned for a trace whose first
\* cycle is a Go 1.4 cycle and whose second cycle is a Go 1.5 one.
C14_Witness ==
    /\ pc = "done"
    /\ ~haveBegin
    /\ Len(log) = 8
    /\ log[3].Kind = PhaseSweep
    /\ log[4].Gomaxprocs = 2


\* The number of Go 1.5 cycles with phases in the log: each has one Scan.
ModernCycles(lg) == Cardinality({i \in 1..Len(lg) : lg[i].Kind = PhaseScan})

\* C15: the last phase of the log NewFromLog returns never has duration -1,
\* and exactly one phase, the open Sweep of the last accepted cycle, was
\* removed: with n >= 1 accepted cycles the log has six phases for each Go
\* 1.5 cycle and three for each Go 1.4 cycle less one, that is 6n - 1 phases
\* when all cycles are Go 1.5 cycles.
C15_OpenSweepDropped ==
    (pc = "done" /\ n >= 1) =>
        /\ log[Len(log)].Duration # -1
        /\ log[Len(log)].Kind = PhaseMarkTerm
        /\ Len(log) = 6 * ModernCycles(log) + 3 * (n - ModernCycles(log)) - 1
        /\ ModernCycles(log) = n => Len(log) = 6 * n - 1

\* A GcStats was returned for a trace of two Go 1.5 cycles.
C15_Witness ==
    /\ pc = "done"
    /\ n = 2
    /\ ModernCycles(log) = 2
    /\ Len(log) = 11


\* ------------------------------------------------------------------------
\* Properties of Stops and MaxPause
\* ------------------------------------------------------------------------

\* The first phases of the maximal runs of consecutive STW phases.
RunStarts(lg) == {a \in 1..Len(lg) : lg[a].STW /\ (a = 1 \/ ~lg[a - 1].STW)}

\* The last phase of the maximal run that starts at a.
RunEnd(lg, a) ==
    CHOOSE b \in a..Len(lg) :
        (\A j \in a..b : lg[j].STW) /\ (b = Len(lg) \/ ~lg[b + 1].STW)

RECURSIVE SumDurations(_, _, _)
SumDurations(lg, a, b) == IF a > b THEN 0 ELSE lg[a].Duration + SumDurations(lg, a + 1, b)

\* C16: Stops() returns one phase for each maximal run of consecutive STW
\* phases, in the order of the log: it begins where the first phase of the
\* run begins, its duration is the sum of the durations of the run, and its
\* kind is that of the phases of the run if they all have the same and
\* PhaseMultiple if not; phases that are not STW, zero-length ones included,
\* end a run and are not returned.
C16_StopsAreMaximalRuns ==
    call.op = "Stops" =>
        LET st == call.ret.val
        IN  /\ Len(st) = Cardinality(RunStarts(log))
            /\ \A a \in RunStarts(log) :
                 LET b == RunEnd(log, a)
                     p == st[Cardinality({x \in RunStarts(log) : x <= a})]
                 IN  /\ p.STW
                     /\ p.Begin = log[a].Begin
                     /\ p.Duration = SumDurations(log, a, b)
                     /\ p.Kind = IF \A j \in a..b : log[j].Kind = log[a].Kind
                                 THEN log[a].Kind ELSE PhaseMultiple

\* Stops() was called on a log of two runs that a zero-length concurrent
\* phase separates, the first a run of two phases of different kinds.
C16_Witness ==
    /\ call.op = "Stops"
    /\ Len(log) = 4
    /\ log[1].Kind # log[2].Kind
    /\ ~log[3].STW
    /\ log[3].Duration = 0
    /\ Len(call.ret.val) = 2
    /\ call.ret.val[1].Kind = PhaseMultiple
    /\ call.ret.val[1].Duration = 3

\* C17: MaxPause() is the largest duration of the phases Stops() returns,
\* and 0 when the log has no STW phase.
C17_MaxPauseIsMaxOfStops ==
    call.op = "MaxPause" =>
        LET durs == { Stops(log)[i].Duration : i \in 1..Len(Stops(log)) }
        IN  /\ durs # {} => (call.ret.val \in durs /\ \A d \in durs : d <= call.ret.val)
            /\ (\A i \in 1..Len(log) : ~log[i].STW) => call.ret.val = 0

\* MaxPause() returned the duration of a run of two phases, longer than any
\* single phase of the log.
C17_Witness ==
    /\ call.op = "MaxPause"
    /\ call.ret.val = 4
    /\ \A i \in 1..Len(log) : log[i].Duration < call.ret.val


\* ------------------------------------------------------------------------
\* Properties of the phases of one line
\* ------------------------------------------------------------------------

\* The number of nanoseconds (for unit = Second) or of units of 1/unit s a
\* decimal text denotes; the texts tried denote whole numbers of them.
ExactNS(text, unit) == text[1] * (unit \div text[2])

RECURSIVE SumFirst(_, _)
SumFirst(q, k) == IF k = 0 THEN 0 ELSE q[k] + SumFirst(q, k - 1)

\* The six phases lg of a cycle are laid out from the begin time ts and the
\* five clock times as the claim says, with cycle number num and p procs.
LaidOut15(lg, ts, clock, num, p) ==
    /\ Len(lg) = 6
    /\ \A i \in 1..5 :
         /\ lg[i].Kind = <<PhaseSweepTerm, PhaseScan, PhaseInstallWB, PhaseMark,
                           PhaseMarkTerm>>[i]
         /\ lg[i].Duration = clock[i]
         /\ lg[i].Begin = ts + SumFirst(clock, i - 1)
         /\ lg[i].STW = (i \in {1, 5})
    /\ lg[6].Kind = PhaseSweep
    /\ lg[6].Begin = ts + SumFirst(clock, 5)
    /\ lg[6].Duration = -1
    /\ ~lg[6].STW
    /\ \A i \in 1..6 : lg[i].N = num /\ lg[i].Gomaxprocs = p

\* C18: an accepted Go 1.5 line yields six phases, SweepTerm, Scan,
\* InstallWB, Mark, MarkTerm and Sweep, with the cycle number and the P of the
\* line: each of the first five lasts its clock time and begins at the Ts of
\* the line in nanoseconds plus the clock times before it, the Sweep begins
\* after all five with duration -1, and STW is true for SweepTerm and
\* MarkTerm only.
C18_SixPhasesFromLine ==
    (pc = "scan" /\ line.fmt = "text15") =>
        LaidOut15(log, ExactNS(line.ts, Second),
                  [i \in 1..5 |-> ExactNS(line.clock[i], Millisecond)], line.n, line.p)

\* C18 with the begin time and the clock times as the parser converted
\* them.
C18_SixPhasesFromConvertedLine ==
    (pc = "scan" /\ line.fmt = "text15") =>
        LaidOut15(log, atofTimes(line.ts, Second),
                  [i \in 1..5 |-> atofTimes(line.clock[i], Millisecond)], line.n, line.p)

\* The line "@1.001s" with "0.018+4.1+0+2+1.3 ms clock" was accepted.
C18_LineAccepted ==
    /\ pc = "scan"
    /\ line.fmt = "text15"
    /\ line.ts = <<1001, 1000>>
    /\ line.clock[2] = <<41, 10>>
    /\ Len(log) = 6


\* The three phases lg of a Go 1.4 cycle are laid out from the begin time
\* begin, in nanoseconds, and the four pause times of the line l, in
\* microseconds.
LaidOut14(lg, begin, l) ==
    /\ Len(lg) = 3
    /\ lg[1].Kind = PhaseSweepTerm
    /\ lg[1].Begin = begin
    /\ lg[1].Duration = (l.stop + l.sweepTerm) * 1000
    /\ lg[2].Kind = PhaseMarkTerm
    /\ lg[2].Begin = lg[1].Begin + lg[1].Duration
    /\ lg[2].Duration = (l.markTerm + l.shrink) * 1000
    /\ lg[3].Kind = PhaseSweep
    /\ lg[3].Begin = lg[2].Begin + lg[2].Duration
    /\ lg[3].Duration = -1
    /\ ~lg[3].STW
    /\ lg[3].GCProcs = F(0)
    /\ \A i \in 1..2 : lg[i].STW /\ lg[i].Gomaxprocs = 1 /\ lg[i].GCProcs = F(1)

\* C19: a Go 1.4 line with the fields stop, sweepTerm, markTerm, shrink and
\* @T, T in microseconds, yields in nanoseconds a SweepTerm over
\* [T*1000, T*1000 + (stop+sweepTerm)*1000), a MarkTerm that begins where the
\* SweepTerm ends and lasts (markTerm+shrink)*1000, and an open Sweep
\* (duration -1, not STW, GCProcs 0) that begins where the MarkTerm ends;
\* the two STW phases have Gomaxprocs 1 and GCProcs 1.  (The begin is
\* compared through its quotient and remainder by 1000.)
C19_LegacyPhasesMicrosecondT ==
    (pc = "scan" /\ nlines = 1 /\ line.fmt = "gc14" /\ line.at # <<>>) =>
        /\ log # <<>>
        /\ log[1].Begin \div 1000 = line.at[1]
        /\ log[1].Begin % 1000 = 0
        /\ LaidOut14(log, log[1].Begin, line)

\* C19 with the number after @ taken as nanoseconds.
C19_LegacyPhasesNanosecondT ==
    (pc = "scan" /\ nlines = 1 /\ line.fmt = "gc14" /\ line.at # <<>>) =>
        LaidOut14(log, line.at[1], line)

\* The line "1+0+0+1 us" with "@5000001" was accepted.
C19_LineAccepted ==
    /\ pc = "scan"
    /\ nlines = 1
    /\ line.fmt = "gc14"
    /\ line.at = <<BackwardLimit + 1>>
    /\ line.stop = 1
    /\ Len(log) = 3


\* ------------------------------------------------------------------------
\* Properties of uniformSumToEdges
\* ------------------------------------------------------------------------

\* Whether x lies in [l, r) of the uniform u, or in (l, r] when below.
Covers(u, x, below) ==
    IF below THEN RLt(u.l, x) /\ RLe(x, u.r) ELSE RLe(u.l, x) /\ RLt(x, u.r)

\* The sum, in the order of the list, of the heights area/(r-l) of the
\* uniforms of us from index k on that cover x, added to acc.
RECURSIVE SumHeights(_, _, _, _, _)
SumHeights(us, k, x, below, acc) ==
    IF k > Len(us) THEN acc
    ELSE IF Covers(us[k], x, below)
    THEN SumHeights(us, k + 1, x, below,
                    RAdd(acc, RDiv(us[k].area, RSub(us[k].r, us[k].l))))
    ELSE SumHeights(us, k + 1, x, below, acc)

\* The height of the sum of the uniforms us at x, and just below x.
HeightAt(us, x) == SumHeights(us, 1, x, FALSE, F(0))

HeightBelow(us, x) == SumHeights(us, 1, x, TRUE, F(0))

\* The Dirac mass of the sum of the uniforms us at x.
RECURSIVE DiracAt(_, _, _)
DiracAt(us, k, x) ==
    IF k > Len(us) THEN F(0)
    ELSE IF REq(us[k].l, x) /\ REq(us[k].r, x)
    THEN RAdd(us[k].area, DiracAt(us, k + 1, x))
    ELSE DiracAt(us, k + 1, x)

\* C20: uniformSumToEdges returns the step function of the sum of the
\* uniforms: the y of every edge is the sum of area/(r-l) over the uniforms
\* with l <= x < r, its dirac is the sum of the areas of the uniforms with
\* l = r = x, and every end of a uniform at which the height changes or a
\* Dirac mass sits is the x of an edge.
C20_EdgesAreStepFunction ==
    call.op = "uniformSumToEdges" =>
        /\ call.ret.ok
        /\ LET us == call.arg
               es == call.ret.val
           IN  /\ \A k \in 1..Len(es) :
                     /\ es[k].y = HeightAt(us, es[k].x)
                     /\ es[k].dirac = DiracAt(us, 1, es[k].x)
               /\ \A i \in 1..Len(us) : \A x \in {us[i].l, us[i].r} :
                     (HeightAt(us, x) # HeightBelow(us, x) \/ DiracAt(us, 1, x) # F(0))
                         => \E k \in 1..Len(es) : es[k].x = x

\* C20 with heights that are the sums up to rounding.
C20_EdgesAreStepFunctionNearly ==
    call.op = "uniformSumToEdges" =>
        /\ call.ret.ok
        /\ LET us == call.arg
               es == call.ret.val
           IN  /\ \A k \in 1..Len(es) :
                     /\ Near(es[k].y, HeightAt(us, es[k].x))
                     /\ es[k].dirac = DiracAt(us, 1, es[k].x)
               /\ \A i \in 1..Len(us) : \A x \in {us[i].l, us[i].r} :
                     (~Near(HeightAt(us, x), HeightBelow(us, x)) \/ DiracAt(us, 1, x) # F(0))
                         => \E k \in 1..Len(es) : es[k].x = x

\* uniformSumToEdges was called on the list of TestEdgesAlignedDeltas.
C20_TestReached ==
    /\ call.op = "uniformSumToEdges"
    /\ Len(call.arg) = 4
    /\ Len(call.ret.val) = 3


\* C21: the edge list returned by uniformSumToEdges is never empty and its x
\* values increase strictly, also when uniforms and Diracs share ends; for
\* the empty list it is the single edge {0, 0, 0}.
C21_EdgesStrictlyIncreasing ==
    call.op = "uniformSumToEdges" =>
        /\ call.ret.ok
        /\ LET es == call.ret.val
           IN  /\ Len(es) >= 1
               /\ \A k \in 1..(Len(es) - 1) : RLt(es[k].x, es[k + 1].x)
               /\ call.arg = <<>> => es = << Edge(F(0), F(0), F(0)) >>

\* A uniform and a Dirac that sits on its right end were turned into edges.
C21_Witness ==
    /\ call.op = "uniformSumToEdges"
    /\ Len(call.arg) = 2
    /\ RLt(call.arg[1].l, call.arg[1].r)
    /\ call.arg[2].l = call.arg[1].r
    /\ call.arg[2].r = call.arg[1].r
    /\ call.ret.ok
    /\ Len(call.ret.val) = 2

\* uniformSumToEdges was called on the empty list.
C21_EmptyReached ==
    /\ call.op = "uniformSumToEdges"
    /\ call.arg = <<>>


\* ------------------------------------------------------------------------
\* Properties of the repair of overlapping cycles
\* ------------------------------------------------------------------------

\* The phases the line parsers compute from a cycle line.
LinePhases(l) ==
    IF l.fmt = "gc14" THEN phasesFromLog14(l).phases ELSE phasesFromLog15(l).phases

\* A step of NewFromLog that repairs an overlap: with program times, the
\* cycle of the line read begins delta nanoseconds, 0 < delta <= 5 ms,
\* before the begin of the open Sweep, and its phases are appended.
RepairsOverlap ==
    /\ pc = "scan"
    /\ pc' = "scan"
    /\ IsCycleLine(line')
    /\ haveBegin'
    /\ Len(log) > 0
    /\ log[Len(log)].Duration = -1
    /\ Len(log') > Len(log)
    /\ log[Len(log)].Begin - FirstBegin(line') > 0

\* C22: when NewFromLog repairs an overlap, each phase of the new cycle has
\* its Begin moved forward by at most 1 ns from the begin time computed from
\* the trace line.
C22_RepairShiftsByAtMostOne ==
    [][ RepairsOverlap =>
          LET phases == LinePhases(line')
          IN  \A i \in 1..Len(phases) :
                 log'[Len(log) + i].Begin - phases[i].Begin \in 0..1
      ]_vars

\* C22, amended: when NewFromLog repairs an overlap of delta nanoseconds,
\* each phase of the new cycle has its Begin moved forward by delta + 1, at
\* least 2 ns and at most 5 ms + 1 ns, so that the cycle begins 1 ns after
\* the begin of the previous Sweep, which is closed with duration 1.
C22_RepairShiftsByDeltaPlusOne ==
    [][ RepairsOverlap =>
          LET phases == LinePhases(line')
              delta == log[Len(log)].Begin - FirstBegin(line')
          IN  /\ delta + 1 >= 2
              /\ delta + 1 <= BackwardLimit + 1
              /\ Len(log') = Len(log) + Len(phases)
              /\ \A i \in 1..Len(phases) :
                    log'[Len(log) + i].Begin - phases[i].Begin = delta + 1
              /\ log'[Len(log) + 1].Begin = log[Len(log)].Begin + 1
              /\ log'[Len(log)].Duration = 1
      ]_vars

\* NewFromLog has repaired an overlap of exactly 5 ms: the cycle of the
\* line read last begins 1 ns after the Sweep before it, 5 ms + 1 ns later
\* than its line says.
C22_Witness ==
    /\ pc = "scan"
    /\ IsCycleLine(line)
    /\ haveBegin
    /\ LET k == Len(log) - Len(LinePhases(line))
       IN  /\ k > 0
           /\ log[k].Kind = PhaseSweep
           /\ log[k].Duration = 1
           /\ log[k].Begin - FirstBegin(line) = BackwardLimit
           /\ log[k + 1].Begin = FirstBegin(line) + BackwardLimit + 1


\* ------------------------------------------------------------------------
\* Properties of the Sweep between two cycles
\* ------------------------------------------------------------------------

\* The Sweep at index i of lg is followed by a cycle and lasts until the
\* begin of that cycle's first phase.
SweepClosed(lg, i) ==
    /\ lg[i].Duration # -1
    /\ lg[i].Duration = lg[i + 1].Begin - lg[i].Begin

\* C23: in every GcStats NewFromLog returns, with or without program times,
\* the Sweep of a cycle that is followed by another cycle has a known
\* duration, the Begin of the later cycle's first phase minus its own Begin.
C23_SweepClosedByNextCycle ==
    pc = "done" =>
        \A i \in 1..(Len(log) - 1) : log[i].Kind = PhaseSweep => SweepClosed(log, i)

\* C23, amended: in every GcStats NewFromLog returns with HaveProgTimes()
\* true, the Sweep of a cycle that is followed by another cycle has a known
\* duration, the Begin of the later cycle's first phase minus its own Begin;
\* without program times the Sweep of every cycle read after the first line
\* without a begin time keeps the duration -1.
C23_SweepClosedWithProgTimes ==
    /\ [] ( (pc = "done" /\ haveBegin) =>
             \A i \in 1..(Len(log) - 1) : log[i].Kind = PhaseSweep => SweepClosed(log, i) )
    /\ [][ (pc = "scan" /\ pc' = "scan" /\ Len(log') > Len(log) /\ Len(log) > 0) =>
              IF haveBegin' THEN SweepClosed(log', Len(log))
              ELSE log'[Len(log)].Duration = -1
         ]_vars

\* A GcStats with program times was returned in which one Sweep was closed
\* by a cycle that began after it or one by a cycle whose overlap was
\* repaired, and the open Sweep of the last cycle was dropped.
C23_Witness ==
    /\ pc = "done"
    /\ haveBegin
    /\ \E i \in 1..(Len(log) - 1) : log[i].Kind = PhaseSweep /\ log[i].Duration \in {1, 2}
    /\ log[Len(log)].Kind = PhaseMarkTerm

\* A GcStats without program times was returned that holds a Sweep of
\* unknown duration between two cycles.
C23_OpenSweepReached ==
    /\ pc = "done"
    /\ ~haveBegin
    /\ \E i \in 1..(Len(log) - 1) : log[i].Kind = PhaseSweep /\ log[i].Duration = -1


\* ------------------------------------------------------------------------
\* Properties of GCProcs
\* ------------------------------------------------------------------------

\* The sum of the numbers of nanoseconds the first k slash-separated
\* sub-values of a cpu segment denote.
RECURSIVE SumSubValues(_, _)
SumSubValues(seg, k) ==
    IF k = 0 THEN 0 ELSE SumSubValues(seg, k - 1) + ExactNS(seg[k], Millisecond)

\* C24: for each of the five timed phases of a modern cycle, GCProcs is
\* cpu[i] / clock[i] when clock[i] > 0, cpu[i] being the sum of the
\* slash-separated sub-values of the i-th cpu segment; when clock[i] is 0 it
\* is Gomaxprocs for SweepTerm and MarkTerm and 0 for Scan, InstallWB and
\* Mark.
C24_GCProcsIsCPUOverClock ==
    call.op = "procs15" =>
        LET clock == ExactNS(call.arg.clock, Millisecond)
            cpu == SumSubValues(call.arg.cpu, Len(call.arg.cpu))
        IN  call.ret.val =
                IF clock > 0 THEN float64Div(cpu, clock)
                ELSE IF call.arg.i \in {1, 5} THEN float64Div(call.arg.p, 1)
                ELSE float64Div(0, 1)

\* C24 for the phases whose clock and cpu times the parser converts to the
\* numbers of nanoseconds they denote.
C24_GCProcsWhenConvertedExactly ==
    ( /\ call.op = "procs15"
      /\ atofTimes(call.arg.clock, Millisecond) = ExactNS(call.arg.clock, Millisecond)
      /\ cpuOfSegment(call.arg.cpu, Len(call.arg.cpu))
           = SumSubValues(call.arg.cpu, Len(call.arg.cpu)) )
    => LET clock == ExactNS(call.arg.clock, Millisecond)
           cpu == SumSubValues(call.arg.cpu, Len(call.arg.cpu))
       IN  call.ret.val =
               IF clock > 0 THEN float64Div(cpu, clock)
               ELSE IF call.arg.i \in {1, 5} THEN float64Div(call.arg.p, 1)
               ELSE float64Div(0, 1)

\* The procs of a Scan phase with "2 ms clock" and "8.2 ms cpu" were
\* computed.
C24_ProcsComputed ==
    /\ call.op = "procs15"
    /\ call.arg.i = 2
    /\ call.arg.clock = <<2, 1>>
    /\ call.arg.cpu = << <<82, 10>> >>

\* C24 at the precision of the phases of the log, with the clock and cpu
\* times as the parser converted them.
C24_GCProcsFromConvertedLine ==
    (pc = "scan" /\ line.fmt = "text15" /\ Len(log) = 6) =>
        \A i \in 1..5 :
            LET clock == atofTimes(line.clock[i], Millisecond)
                cpu == cpuOfSegment(line.cpu[i], Len(line.cpu[i]))
            IN  log[i].GCProcs =
                    IF clock > 0 THEN Rat(cpu, clock)
                    ELSE IF i \in {1, 5} THEN F(log[i].Gomaxprocs) ELSE F(0)

\* ------------------------------------------------------------------------
\* Properties of the GCProcs of joined stops
\* ------------------------------------------------------------------------

\* The sum of GCProcs times duration over the phases a..b of lg, added in
\* the order of the log to acc.
RECURSIVE SumProcsTimes(_, _, _, _)
SumProcsTimes(lg, a, b, acc) ==
    IF a > b THEN acc
    ELSE SumProcsTimes(lg, a + 1, b, RAdd(acc, RMul(lg[a].GCProcs, F(lg[a].Duration))))

\* The maximal runs of lg that the claim is about, by their first phases:
\* two phases or more and a positive total duration.
JoinedRuns(lg) ==
    { a \in RunStarts(lg) :
        RunEnd(lg, a) > a /\ SumDurations(lg, a, RunEnd(lg, a)) > 0 }

\* The phase Stops() returned for the run of the log that starts at a.
StopOfRun(a) == call.ret.val[Cardinality({x \in RunStarts(log) : x <= a})]

C25_WeightedMeanNearly ==
    call.op = "Stops" =>
        \A a \in JoinedRuns(log) :
            (log[a].Duration + log[a + 1].Duration > 0) =>
                Near(StopOfRun(a).GCProcs,
                     RDiv(SumProcsTimes(log, a, RunEnd(log, a), F(0)),
                          F(SumDurations(log, a, RunEnd(log, a)))))

\* C25 for the runs that begin with two phases of length zero: GCProcs is
\* not a number.
C25_NaNAfterZeroLengthPair ==
    call.op = "Stops" =>
        \A a \in JoinedRuns(log) :
            (log[a].Duration + log[a + 1].Duration = 0) => StopOfRun(a).GCProcs = NaN

\* Stops() was called on a run of three phases of which the first two have
\* length zero.
C25_ZeroLengthPairReached ==
    /\ call.op = "Stops"
    /\ Len(log) = 3
    /\ log[1].Duration = 0
    /\ log[2].Duration = 0
    /\ log[3].Duration = 1


\* ------------------------------------------------------------------------
\* Properties of the MUD of windows as long as the log
\* ------------------------------------------------------------------------

\* The utilization of the whole log.
WholeLogUtil(lg) == muInWindow(lg[1].Begin, End(lg[Len(lg)]), lg)

\* The GcStats has program times and a log of positive length, and the MUD
\* at hand is one for a window capped to that length.
WholeLogMUD ==
    /\ haveBegin
    /\ log # <<>>
    /\ Span(log) > 0
    /\ mud.WindowNS = Span(log)

\* C26: on a non-empty log of positive length last - first,
\* MutatorUtilizationDistribution(w) for w >= last - first stores the window
\* last - first and is a single Dirac of mass 1 at the utilization u of the
\* whole log: CDF(x) is 0 for x < u and 1 for x >= u, and InvCDF(p) is u for
\* every p in [0, 1].
C26_WholeLogMUDIsDirac ==
    /\ ( /\ call.op = "MutatorUtilizationDistribution"
         /\ haveBegin
         /\ log # <<>>
         /\ Span(log) > 0
         /\ call.arg >= Span(log) )
       => /\ call.ret.ok
          /\ mud.WindowNS = Span(log)
          /\ mud.edges = << Edge(WholeLogUtil(log), F(0), F(1)) >>
          /\ \A x \in UtilProbes(mud) :
                CDF(mud, x) = IF RLt(x, WholeLogUtil(log)) THEN F(0) ELSE F(1)
          /\ \A p \in PctileProbes(mud) :
                (RLe(F(0), p) /\ RLe(p, F(1))) => InvCDF(mud, p) = WholeLogUtil(log)
    /\ (call.op = "CDF" /\ WholeLogMUD)
       => call.ret.val = IF RLt(call.arg, WholeLogUtil(log)) THEN F(0) ELSE F(1)
    /\ (call.op = "InvCDF" /\ WholeLogMUD /\ RLe(F(0), call.arg) /\ RLe(call.arg, F(1)))
       => call.ret.val = WholeLogUtil(log)

\* CDF has returned 1 at the utilization of the whole log, strictly between
\* 0 and 1, on the MUD of a window as long as the log.
C26_Witness ==
    /\ call.op = "CDF"
    /\ WholeLogMUD
    /\ call.arg = WholeLogUtil(log)
    /\ RLt(F(0), call.arg)
    /\ RLt(call.arg, F(1))
    /\ call.ret.val = F(1)

\* InvCDF has returned the utilization of the whole log for a percentile
\* strictly between 0 and 1 on such a MUD, made for a window longer than
\* the log.
C26_InvCDFReached ==
    /\ call.op = "InvCDF"
    /\ WholeLogMUD
    /\ RLt(F(0), call.arg)
    /\ RLt(call.arg, F(1))
    /\ call.ret.val = WholeLogUtil(log)


\* ------------------------------------------------------------------------
\* Properties of the MUD of windows of size 0
\* ------------------------------------------------------------------------

\* The instantaneous mutator utilization during a phase: the share of the
\* procs the collector leaves to the mutator.
InstUtil(phase) ==
    RDiv(RSub(F(phase.Gomaxprocs),
              IF phase.STW THEN F(phase.Gomaxprocs) ELSE phase.GCProcs),
         F(phase.Gomaxprocs))

\* The time lg spends in phases of instantaneous utilization u.
RECURSIVE TimeAt(_, _, _)
TimeAt(lg, k, u) ==
    IF k = 0 THEN 0
    ELSE TimeAt(lg, k - 1, u) + (IF InstUtil(lg[k]) = u THEN lg[k].Duration ELSE 0)

\* The MUD at hand was made for the window size 0 on a log with program
\* times and of positive length.
ZeroWindowMUD ==
    /\ call.op = "MutatorUtilizationDistribution"
    /\ call.arg = 0
    /\ haveBegin
    /\ log # <<>>
    /\ Span(log) > 0

\* C27: MutatorUtilizationDistribution(0) consists of point masses only,
\* every edge height being 0, and the Dirac mass at the utilization u is the
\* fraction of the time of the log spent in phases whose instantaneous
\* mutator utilization is u.
C27_ZeroWindowMUDIsPointMasses ==
    ZeroWindowMUD =>
        /\ call.ret.ok
        /\ \A k \in 1..Len(mud.edges) :
              /\ mud.edges[k].y = F(0)
              /\ mud.edges[k].dirac =
                    RDiv(F(TimeAt(log, Len(log), mud.edges[k].x)), F(Span(log)))
        /\ \A i \in 1..Len(log) :
              log[i].Duration > 0 =>
                  \E k \in 1..Len(mud.edges) : mud.edges[k].x = InstUtil(log[i])

\* C27 with Dirac masses that are the fractions up to rounding.
C27_ZeroWindowMUDNearly ==
    ZeroWindowMUD =>
        /\ call.ret.ok
        /\ \A k \in 1..Len(mud.edges) :
              /\ mud.edges[k].y = F(0)
              /\ Near(mud.edges[k].dirac,
                      RDiv(F(TimeAt(log, Len(log), mud.edges[k].x)), F(Span(log))))
        /\ \A i \in 1..Len(log) :
              log[i].Duration > 0 =>
                  \E k \in 1..Len(mud.edges) : mud.edges[k].x = InstUtil(log[i])

\* A MUD for the window size 0 with three point masses, one of them the
\* time of more than one phase.
C27_Witness ==
    /\ ZeroWindowMUD
    /\ call.ret.ok
    /\ Len(mud.edges) = 3
    /\ \E k \in 1..3 :
          Cardinality({ i \in 1..Len(log) :
                          log[i].Duration > 0 /\ InstUtil(log[i]) = mud.edges[k].x }) > 1


\* ------------------------------------------------------------------------
\* Properties of MMU for windows that do not fit
\* ------------------------------------------------------------------------

\* C28: on a GcStats with program times, MMU(w) for w > 0 returns 1 when
\* the log is empty or no window of size w fits inside it (w > last -
\* first): no candidate window is evaluated.
C28_MMUIsOneWithoutWindows ==
    ( /\ call.op = "MMU"
      /\ haveBegin
      /\ call.arg > 0
      /\ (log = <<>> \/ call.arg > Span(log)) )
    => /\ call.ret.ok
       /\ call.ret.val = F(1)

\* MMU has returned 1 for the window one nanosecond longer than a log over
\* which the utilization is below 1.
C28_Witness ==
    /\ call.op = "MMU"
    /\ haveBegin
    /\ log # <<>>
    /\ Span(log) > 0
    /\ call.arg = Span(log) + 1
    /\ call.ret.ok
    /\ call.ret.val = F(1)
    /\ RLt(WholeLogUtil(log), F(1))

\* MMU has returned 1 on an empty log.
C28_EmptyLogReached ==
    /\ call.op = "MMU"
    /\ haveBegin
    /\ log = <<>>
    /\ call.arg > 0
    /\ call.ret.val = F(1)


\* ------------------------------------------------------------------------
\* Properties of the sliding loop of MutatorUtilizationDistribution
\* ------------------------------------------------------------------------

\* A log of phases of known duration, each ending where the next begins.
AbuttingLog(lg) ==
    /\ \A i \in 1..Len(lg) : lg[i].Duration >= 0
    /\ \A i \in 1..Len(lg) - 1 : lg[i].Begin + lg[i].Duration = lg[i + 1].Begin

\* The iterations of the sliding loop from begin on, each as its begin,
\* the indices it found, its slide duration and the begin it leaves; an
\* iteration that indexes past the log is recorded with duration 0 and
\* ends the replay, as does the iteration after 2 * Len(lg) of them.
RECURSIVE slideIterations(_, _, _, _, _, _, _, _)
slideIterations(lg, windowNS, first, lastBegin, begin, beginPhase, endPhase, acc) ==
    IF ~(begin < lastBegin) \/ Len(acc) > 2 * Len(lg) THEN acc
    ELSE CHOOSE r \in
           { IF st = <<>>
             THEN Append(acc, [begin |-> begin, beginPhase |-> Len(lg) + 1,
                               endPhase |-> Len(lg) + 1, duration |-> 0,
                               next |-> begin])
             ELSE slideIterations(lg, windowNS, first, lastBegin, st[1], st[2], st[3],
                                  Append(acc, [begin |-> begin, beginPhase |-> st[2],
                                               endPhase |-> st[3],
                                               duration |-> st[1] - begin,
                                               next |-> st[1]]))
             : st \in { slideStep(lg, windowNS, first, lastBegin, begin,
                                  beginPhase, endPhase) } } : TRUE

\* The iterations MutatorUtilizationDistribution(windowNS0) makes on lg.
SlidesOf(lg, windowNS0) ==
    CHOOSE r \in
        { slideIterations(lg, w, lg[1].Begin, End(lg[Len(lg)]) - w, lg[1].Begin, 1, 1, <<>>)
          : w \in { int64Min(windowNS0, Span(lg)) } } : TRUE

\* What the sliding loop of MutatorUtilizationDistribution(windowNS0) gives
\* on lg.
SlideLoopOf(lg, windowNS0) ==
    CHOOSE r \in
        { slideLoop(lg, w, lg[1].Begin, End(lg[Len(lg)]) - w, lg[1].Begin, 1, 1, <<>>)
          : w \in { int64Min(windowNS0, Span(lg)) } } : TRUE

RECURSIVE SumSlideDurations(_, _)
SumSlideDurations(its, k) ==
    IF k > Len(its) THEN 0 ELSE its[k].duration + SumSlideDurations(its, k + 1)

\* C29: on a non-empty abutting log and for every window w >= 0, the
\* sliding loop of MutatorUtilizationDistribution terminates (it ends
\* without a panic after at most 2 * len(log) iterations, one addend
\* each); in every iteration
\* beginPhase and endPhase are indices of the log, the slide duration is
\* positive, begin increases and stays at or below last - w, and the
\* durations sum to last - first - w, where w is the window after the cap
\* at last - first.
C29_SlidingLoopTerminates ==
    ( /\ call.op = "MutatorUtilizationDistribution"
      /\ haveBegin
      /\ log # <<>>
      /\ AbuttingLog(log)
      /\ call.arg >= 0 )
    => LET w    == int64Min(call.arg, Span(log))
           last == End(log[Len(log)])
           its  == SlidesOf(log, call.arg)
       IN  /\ SlideLoopOf(log, call.arg).ok
           /\ Len(SlideLoopOf(log, call.arg).val) = Len(its)
           /\ Len(its) <= 2 * Len(log)
           /\ \A k \in 1..Len(its) :
                /\ its[k].beginPhase \in 1..Len(log)
                /\ its[k].endPhase \in 1..Len(log)
                /\ its[k].duration > 0
                /\ its[k].next > its[k].begin
                /\ its[k].next <= last - w
           /\ SumSlideDurations(its, 1) = last - log[1].Begin - w

\* MutatorUtilizationDistribution has returned after a loop of at least
\* three iterations, one bounded by the phase of begin and one by the phase
\* of end, for a window shorter than the log.
C29_Witness ==
    /\ call.op = "MutatorUtilizationDistribution"
    /\ haveBegin
    /\ log # <<>>
    /\ AbuttingLog(log)
    /\ call.arg > 0
    /\ call.arg < Span(log)
    /\ call.ret.ok
    /\ LET its == SlidesOf(log, call.arg)
       IN  /\ Len(its) >= 3
           /\ \E k \in 1..Len(its) :
                its[k].duration = End(log[its[k].beginPhase]) - its[k].begin
                /\ its[k].duration < End(log[its[k].endPhase]) - (its[k].begin + call.arg)
           /\ \E k \in 1..Len(its) :
                its[k].duration < End(log[its[k].beginPhase]) - its[k].begin

\* The loop has run over a log with a phase of length zero.
C29_ZeroLengthPhaseReached ==
    /\ call.op = "MutatorUtilizationDistribution"
    /\ haveBegin
    /\ log # <<>>
    /\ AbuttingLog(log)
    /\ call.arg >= 0
    /\ SlideLoopOf(log, call.arg).ok
    /\ \E i \in 1..Len(log) : log[i].Duration = 0
    /\ Len(SlidesOf(log, call.arg)) >= 2

\* The loop has not run: the window is as long as the log or longer.
C29_NoSlideReached ==
    /\ call.op = "MutatorUtilizationDistribution"
    /\ haveBegin
    /\ log # <<>>
    /\ AbuttingLog(log)
    /\ call.arg > Span(log)
    /\ SlideLoopOf(log, call.arg) = Ok(<<>>)


============================================================================
